---- MODULE Spec2Model ----
(***************************************************************************)
(* Model of the replay decoder of bfme2replaybot (src/src/parser/replay.rs *)
(* and src/src/models/replay.rs).                                          *)
(*                                                                         *)
(* The byte buffer is represented by its parsed layout: a signature, the   *)
(* text header (an optional M= field, an optional ;S= roster of            *)
(* colon-separated slot strings), an optional NUL that ends the header and *)
(* the chunk stream behind it.  Chunks and raw pattern matches of the      *)
(* stream are drawn one at a time, when the decoder reaches them.          *)
(* Option<T> is a sequence of length 0 (None) or 1 (Some).                 *)
(***************************************************************************)
EXTENDS Integers, Sequences, FiniteSets, TLC

VARIABLES
    data,            \* the input buffer (layout of the header part)
    pc,              \* position of parse_replay
    calls,           \* functions parse_replay has run so far
    hdr,             \* HeaderParseResult returned by parse_header
    header_players,  \* parse_replay: header_players (mutated by assign_player_colors)
    pn_to_slot,      \* parse_replay: pn_to_slot, player number -> slot
    players,         \* parse_replay: players (Vec<Player>)
    build_positions, \* parse_and_analyze_chunks: build_positions
    unit_positions,  \* parse_and_analyze_chunks: unit_positions
    parse_result,    \* ChunkParseResult (positions, combat, max_timecode)
    n_chunks,        \* chunks decoded so far by the structured decoder
    n_raw,           \* pattern matches visited so far by the raw scanner
    team_sides,      \* parse_replay: team_sides, team_raw -> side
    winner,          \* parse_replay: winner
    game_crashed,    \* parse_replay: game_crashed
    estimated_duration_secs, \* parse_replay: estimated_duration_secs
    ret,             \* what parse_replay returned
    pos,             \* parse_and_analyze_chunks: pos, counted from chunks_start
    scan_i,          \* raw_scan_for_critical_events: i, counted from chunks_start
    decoded,         \* history: the chunks parse_chunk returned to the decode loop
    scanned,         \* history: the events the raw scanner recorded
    duration,        \* what duration_formatted read from the ReplayInfo
    parts,           \* build_safe_content: parts
    content,         \* what build_safe_content returned
    pending,         \* Data::pending_replays: key -> PendingReplays
    tasks,           \* the handlers of uploads and Show-more clicks, each with its locals
    now,             \* Instant::now(), in seconds
    rendered,        \* history: the batches process_replay_batch rendered
    sent             \* history: the batch messages and follow-ups sent

vars == <<data, pc, calls, hdr, header_players, pn_to_slot, players,
          build_positions, unit_positions, parse_result, n_chunks, n_raw,
          team_sides, winner, game_crashed, estimated_duration_secs, ret,
          pos, scan_i, decoded, scanned, duration, parts, content,
          pending, tasks, now, rendered, sent>>

\* the state of the two passes over a stream that is given byte by byte
stream_vars == <<pos, scan_i, decoded, scanned>>

\* the state of the callers of the decoder
caller_vars == <<duration, parts, content, pending, tasks, now, rendered, sent>>

\* the state of the pagination of the bot
paging_vars == <<pending, tasks, now, rendered, sent>>

\* no upload and no click is handled
NoPaging ==
    /\ pending = <<>>
    /\ tasks = <<>>
    /\ now = 0
    /\ rendered = {}
    /\ sent = {}

----------------------------------------------------------------------------
(* Bounds of the model *)

\* slot strings of a roster in Spec
MaxEntries == 2
\* chunks the structured decoder decodes from one stream
MaxChunks == 3
\* pattern matches the raw scanner visits in one stream
MaxRaw == 2
\* players whose header colour id is -1, in SpecColors
MaxRandom == 11
\* players with an explicit colour id, in SpecColors
MaxExplicit == 3
\* items of a stream that is given byte by byte, in SpecDecode
MaxItems == 2
\* bytes by which the buffer ends before the end of its last item, in SpecDecode
MaxCut == 21
\* arguments of a chunk in the streams of SpecDecodeLive
MaxLiveArgs == 7
\* parts of a message, in SpecContent
MaxParts == 3

----------------------------------------------------------------------------
(* Helpers *)

None == <<>>
Some(v) == <<v>>
IsSome(o) == Len(o) = 1
Get(o) == o[1]

Range(s) == {s[i] : i \in 1..Len(s)}

RECURSIVE SumSeq(_)
SumSeq(s) == IF s = <<>> THEN 0 ELSE Head(s) + SumSeq(Tail(s))

\* every iteration order a HashMap or HashSet over the keys S can have
Orders(S) == {o \in [1..Cardinality(S) -> S] : Range(o) = S}

\* the ascending order of a set of integers (Vec::sort)
RECURSIVE SortedSeq(_)
SortedSeq(S) ==
    IF S = {} THEN <<>>
    ELSE LET m == CHOOSE x \in S : \A y \in S : x <= y
         IN <<m>> \o SortedSeq(S \ {m})

\* index of the first element of s equal to v (Iterator::position), 0 when absent
FirstIndex(s, v) ==
    IF \E i \in 1..Len(s) : s[i] = v
    THEN CHOOSE i \in 1..Len(s) : s[i] = v /\ \A j \in 1..(i - 1) : s[j] /= v
    ELSE 0

----------------------------------------------------------------------------
(* Program constants *)

MAGIC == "BFME2RPL"
MAGIC_LEN == 8
MIN_AFTER_MAGIC == 16
PREAMBLE_LEN == 16
CMD_BUILD_OBJECT == 1049
CMD_BUILD_OBJECT_2 == 1050
CMD_UNIT_COMMAND == 1071
CMD_END_GAME == 29
CMD_PLAYER_DEFEATED == 1096
MAX_SANE_TIMECODE == 10000000
MAX_SANE_PLAYER_NUM == 100
MAX_SANE_ARG_TYPES == 100
MAX_SANE_ARG_COUNT == 50
DESCRIPTOR_LEN == 2
PATTERN_LEN == 4
RAW_TAIL == 3
CONTENT_SAFE_LIMIT == 1900
MAP_X_MIDPOINT == 2500
SAGE_TICKS_PER_SECOND == 5
U8_MOD == 256
I8_MAX == 127
PALETTE_SIZE == 10
FIRST_PLAYER_NUM == 3
MIN_FIELDS == 8
RAW_MIN_PN == 3
RAW_MAX_PN == 20
RAW_MAX_NARGS == 10
RAW_MIN_SPAN == 8
CHUNK_HEADER_LEN == 13
BUILDING_ID_LOW == 2000
BUILDING_ID_HIGH == 3000
GAP_COLORS == 9
GAP_MIN_LEN == 3

PLAYER_COLORS ==
    << <<70, 91, 156>>, <<158, 56, 42>>, <<175, 189, 76>>, <<62, 152, 100>>,
       <<206, 135, 69>>, <<122, 168, 204>>, <<148, 116, 183>>, <<204, 159, 188>>,
       <<100, 100, 100>>, <<226, 226, 226>> >>
GRAY == <<128, 128, 128>>

----------------------------------------------------------------------------
(* The text of the header: tokens, their byte lengths, their conversions *)

\* byte length of the tokens a map path is made of
PathTokenLen ==
    [t \in {"385", "maps/", "map wor rhun", "Map Wor Rhun", "fords of isen", "a"} |->
        CASE t = "385" -> 3
          [] t = "maps/" -> 5
          [] t = "map wor rhun" -> 12
          [] t = "Map Wor Rhun" -> 12
          [] t = "fords of isen" -> 13
          [] t = "a" -> 1]

\* str::to_lowercase on the tokens
ToLowercase(t) == IF t = "Map Wor Rhun" THEN "map wor rhun" ELSE t

\* str::contains("wor rhun") on a lowercased name
ContainsWorRhun(name) == \E i \in 1..Len(name) : ToLowercase(name[i]) = "map wor rhun"

\* str::parse::<i8>() of a field: the decimal strings of -128..127 parse, all else fails
ParseI8(s) ==
    CASE s = "-128" -> Some(-128)
      [] s = "-2" -> Some(-2)
      [] s = "-1" -> Some(-1)
      [] s = "0" -> Some(0)
      [] s = "1" -> Some(1)
      [] s = "2" -> Some(2)
      [] s = "3" -> Some(3)
      [] s = "4" -> Some(4)
      [] s = "5" -> Some(5)
      [] s = "6" -> Some(6)
      [] s = "7" -> Some(7)
      [] s = "8" -> Some(8)
      [] s = "9" -> Some(9)
      [] s = "10" -> Some(10)
      [] s = "126" -> Some(126)
      [] s = "127" -> Some(127)
      [] OTHER -> None

\* the slot string "name,uid,port,TT,color,f5,faction,team" as its comma-separated parts
PlayerString(name, color, faction, team) ==
    <<name, "1A53EFD5", "8094", "TT", color, "-1", faction, team>>

\* byte length of a slot string
SlotStringLen(s) == IF Len(s) = 1 THEN 1 ELSE 4 * Len(s)

\* byte length of a roster: each item is `skip` strings "X" and one slot string,
\* every string followed by a colon
RosterLen(roster) ==
    SumSeq([i \in 1..Len(roster) |->
              2 * roster[i].skip + SlotStringLen(roster[i].str) + 1])

MapFieldLen(d) ==
    IF d.map.present THEN 2 + SumSeq([i \in 1..Len(d.map.path) |-> PathTokenLen[d.map.path[i]]]) + 1
    ELSE 0

\* data.len() up to the end of the header text (the NUL excluded)
HeaderLen(d) ==
    PREAMBLE_LEN + MapFieldLen(d) + (IF d.has_s THEN 3 + RosterLen(d.roster) ELSE 0)

\* data.len()
DataLen(d) == HeaderLen(d) + (IF d.has_nul THEN 1 ELSE 0) + d.stream_len

----------------------------------------------------------------------------
(* Header Extractor *)

\* extract_map_name_from_path: what follows the first "maps/", or the whole path
extract_map_name_from_path(path) ==
    LET idx == FirstIndex(path, "maps/")
        name == SubSeq(path, idx + 1, Len(path))
    IN IF idx > 0 /\ name /= <<>> THEN Some(name)
       ELSE IF path /= <<>> THEN Some(path)
       ELSE None

\* variant of find_map_name_in that takes a path that is not UTF-8
find_map_name_lossy(d) ==
    IF d.map.present /\ d.map.path /= <<>>
    THEN extract_map_name_from_path(d.map.path)
    ELSE None

\* find_map_name_in: the first M= field with a non-empty, UTF-8 path
find_map_name_in(d) ==
    IF d.map.present /\ d.map.path /= <<>> /\ d.map.utf8
    THEN extract_map_name_from_path(d.map.path)
    ELSE None

\* the slot index of the i-th item of a roster: slot_idx as u8
SlotIdx(roster, i) ==
    (SumSeq([j \in 1..i |-> roster[j].skip]) + (i - 1)) % U8_MOD

\* name after the H prefix is stripped (only when something follows the H)
StripH(name) ==
    CASE name = "HGusto" -> "Gusto"
      [] name = "HAlice" -> "Alice"
      [] name = "HBob" -> "Bob"
      [] name = "HCarol" -> "Carol"
      [] name = "HDave" -> "Dave"
      [] name = "HEve" -> "Eve"
      [] OTHER -> name

UnwrapOr(o, dflt) == IF IsSome(o) THEN Get(o) ELSE dflt

\* parse_player_data: None, or the HeaderPlayer of a slot string
parse_player_data(s, slot) ==
    IF Len(s) = 0 \/ (Len(s) = 1 /\ s[1] \in {"", "X", "O", ";"}) THEN None
    ELSE IF Len(s) < MIN_FIELDS THEN None
    ELSE IF StripH(s[1]) = "" THEN None
    ELSE Some([name |-> StripH(s[1]),
               color_id |-> UnwrapOr(ParseI8(s[5]), -1),
               faction_id |-> UnwrapOr(ParseI8(s[7]), -1),
               team_raw |-> UnwrapOr(ParseI8(s[8]), -1),
               slot |-> slot])

\* the parsed slot strings of the roster, in order: Option<HeaderPlayer> each
ParsedRoster(d) ==
    [i \in 1..Len(d.roster) |-> parse_player_data(d.roster[i].str, SlotIdx(d.roster, i))]

\* the entries of the roster that parse, in order (what occupied_slots enumerates)
OccupiedEntries(d) ==
    LET parsed == ParsedRoster(d)
        some == SelectSeq(parsed, LAMBDA o : IsSome(o))
    IN [i \in 1..Len(some) |-> Get(some[i])]

\* find_players_and_spectators_in: (players, spectators, occupied_slots)
find_players_and_spectators_in(d) ==
    IF ~d.has_s THEN [players |-> <<>>, spectators |-> <<>>, occupied_slots |-> <<>>]
    ELSE LET occ == OccupiedEntries(d)
             specs == SelectSeq(occ, LAMBDA p : p.team_raw < 0)
         IN [players |-> SelectSeq(occ, LAMBDA p : p.team_raw >= 0),
             spectators |-> [i \in 1..Len(specs) |-> specs[i].name],
             occupied_slots |-> [i \in 1..Len(occ) |-> occ[i].slot]]

\* find_chunks_start: one past the first NUL after the ;S= marker
find_chunks_start(d) ==
    IF d.has_s /\ d.has_nul THEN Some(HeaderLen(d) + 1) ELSE None

----------------------------------------------------------------------------
(* Color Assignment *)

\* find_best_gap: the longest run of free ids within 0..8, the later one on a tie,
\* as (start, end, length); (0, 0, 0) when no id of 0..8 is free
find_best_gap(used) ==
    LET available == {c \in 0..(GAP_COLORS - 1) : c \notin used}
        gaps == {g \in available \X available :
                    /\ g[1] <= g[2]
                    /\ \A c \in g[1]..g[2] : c \in available
                    /\ (g[1] - 1) \notin available
                    /\ (g[2] + 1) \notin available}
        Better(a, b) == \/ a[2] - a[1] > b[2] - b[1]
                        \/ (a[2] - a[1] = b[2] - b[1] /\ a[2] >= b[2])
    IN IF available = {} THEN <<0, 0, 0>>
       ELSE LET best == CHOOSE g \in gaps : \A h \in gaps : Better(g, h)
            IN <<best[1], best[2], best[2] - best[1] + 1>>

\* variant of the inner loop that stops at id 9 instead of wrapping to 0
NextFreeColorNoWrap(used, next_color) ==
    LET free == {offset \in 0..(PALETTE_SIZE - 1) :
                    /\ next_color + offset < PALETTE_SIZE
                    /\ (next_color + offset) \notin used}
    IN IF free = {} THEN None
       ELSE LET first == CHOOSE o \in free : \A q \in free : o <= q
            IN Some(next_color + first)

\* the inner loop of assign_player_colors: the first id, from next_color on and wrapping
\* modulo 10, that is not used; None when all ten are used
NextFreeColor(used, next_color) ==
    LET free == {offset \in 0..(PALETTE_SIZE - 1) :
                    ((next_color + offset) % PALETTE_SIZE) \notin used}
    IN IF free = {} THEN None
       ELSE LET first == CHOOSE o \in free : \A q \in free : o <= q
            IN Some((next_color + first) % PALETTE_SIZE)

\* the second pass of assign_player_colors over hps[i..]
RECURSIVE AssignRandomColors(_, _, _, _)
AssignRandomColors(hps, i, used, next_color) ==
    IF i > Len(hps) THEN hps
    ELSE IF hps[i].color_id = -1 /\ IsSome(NextFreeColor(used, next_color))
         THEN LET color_id == Get(NextFreeColor(used, next_color))
              IN AssignRandomColors([hps EXCEPT ![i].color_id = color_id], i + 1,
                                    used \cup {color_id}, (color_id + 1) % PALETTE_SIZE)
         ELSE AssignRandomColors(hps, i + 1, used, next_color)

\* variant of assign_player_colors without the first pass: the explicit ids are not
\* collected before the second pass
assign_player_colors_unseeded(hps) ==
    LET gap == find_best_gap({})
        next_color == IF gap[3] >= GAP_MIN_LEN THEN gap[1] ELSE gap[2]
    IN AssignRandomColors(hps, 1, {}, next_color)

\* assign_player_colors
assign_player_colors(hps) ==
    LET used_colors == {hps[i].color_id : i \in {j \in 1..Len(hps) : hps[j].color_id >= 0}}
        gap == find_best_gap(used_colors)
        next_color == IF gap[3] >= GAP_MIN_LEN THEN gap[1] ELSE gap[2]
    IN AssignRandomColors(hps, 1, used_colors, next_color)

----------------------------------------------------------------------------
(* Data model: src/src/models/replay.rs *)

\* Faction::from_id
Faction_from_id(id) ==
    CASE id = -1 -> "Random"
      [] id = 0 -> "Men"
      [] id = 1 -> "Goblins"
      [] id = 2 -> "Dwarves"
      [] id = 3 -> "Isengard"
      [] id = 4 -> "Elves"
      [] id = 5 -> "Mordor"
      [] id = 6 -> "Angmar"
      [] id > 6 -> "Unknown"
      [] OTHER -> "Random"

\* MapPosition::is_valid
is_valid(self) == self.x /= 0 \/ self.y /= 0

\* Player::display_faction
display_faction(player) ==
    IF IsSome(player.actual_faction) THEN Get(player.actual_faction) ELSE player.faction

\* build_players evaluates hp.team_raw + 1 in i8 for every header player (the argument
\* of unwrap_or is computed before the call): does one of the sums leave i8?
build_players_overflows(hps) == \E i \in 1..Len(hps) : hps[i].team_raw + 1 > I8_MAX

\* build_players
build_players(hps) ==
    LET team_raws == SortedSeq({hps[i].team_raw : i \in {j \in 1..Len(hps) : hps[j].team_raw >= 0}})
    IN [i \in 1..Len(hps) |->
          LET hp == hps[i]
              idx == FirstIndex(team_raws, hp.team_raw)
          IN [name |-> hp.name,
              team |-> IF idx > 0 THEN idx
                       ELSE ((hp.team_raw + 1 + I8_MAX + 1) % U8_MOD) - (I8_MAX + 1),
              team_raw |-> hp.team_raw,
              slot |-> hp.slot,
              faction |-> Faction_from_id(hp.faction_id),
              color_id |-> hp.color_id,
              color_rgb |-> IF hp.color_id >= 0 /\ hp.color_id < PALETTE_SIZE
                            THEN PLAYER_COLORS[hp.color_id + 1] ELSE GRAY,
              map_position |-> None,
              actual_faction |-> None]]

\* variant of duration_seconds that takes the estimate whenever there is one
duration_seconds_estimate_first(info) ==
    IF IsSome(info.estimated_duration_secs) THEN info.estimated_duration_secs
    ELSE IF IsSome(info.start_time) /\ IsSome(info.end_time)
            /\ Get(info.end_time) > Get(info.start_time)
         THEN Some(Get(info.end_time) - Get(info.start_time))
         ELSE None

\* ReplayInfo::duration_seconds
duration_seconds(info) ==
    IF IsSome(info.start_time) /\ IsSome(info.end_time)
       /\ Get(info.end_time) > Get(info.start_time)
    THEN Some(Get(info.end_time) - Get(info.start_time))
    ELSE info.estimated_duration_secs

\* ReplayInfo::is_duration_estimated
is_duration_estimated(info) ==
    IF IsSome(info.start_time) /\ IsSome(info.end_time)
       /\ Get(info.end_time) > Get(info.start_time)
    THEN FALSE
    ELSE IsSome(info.estimated_duration_secs)

----------------------------------------------------------------------------
(* Chunk Stream Decoder *)

\* ChunkArg values
Vec3(x, y) == [kind |-> "Vec3", v |-> 0, x |-> x, y |-> y]
IntArg(v) == [kind |-> "Int", v |-> v, x |-> 0, y |-> 0]

\* HashMap::insert and HashMap::entry(k).or_insert(v)
MapInsert(m, k, v) == (k :> v) @@ m
MapOrInsert(m, k, v) == m @@ (k :> v)

\* extract_position: the first Vec3 argument, as (x, y)
extract_position(chunk) ==
    LET idx == {i \in 1..Len(chunk.args) : chunk.args[i].kind = "Vec3"}
    IN IF idx = {} THEN None
       ELSE LET i == CHOOSE a \in idx : \A b \in idx : a <= b
            IN Some([x |-> chunk.args[i].x, y |-> chunk.args[i].y])

\* extract_building_id: the first Int argument strictly between 2000 and 3000
extract_building_id(chunk) ==
    LET idx == {i \in 1..Len(chunk.args) :
                  /\ chunk.args[i].kind = "Int"
                  /\ chunk.args[i].v > BUILDING_ID_LOW
                  /\ chunk.args[i].v < BUILDING_ID_HIGH}
    IN IF idx = {} THEN None
       ELSE LET i == CHOOSE a \in idx : \A b \in idx : a <= b
            IN Some(chunk.args[i].v)

\* infer_faction_from_building
infer_faction_from_building(building_type) ==
    CASE building_type \in 2622..2720 -> Some("Men")
      [] building_type \in 2577..2620 -> Some("Elves")
      [] building_type \in 2541..2575 -> Some("Dwarves")
      [] building_type \in 2151..2185 -> Some("Goblins")
      [] building_type \in 2060..2090 -> Some("Isengard")
      [] building_type \in 2130..2150 -> Some("Mordor")
      [] OTHER -> None

\* detect_faction_from_buildings, the HashSet iterated in the order `order`
detect_faction_from_buildings(order) ==
    LET idx == {i \in 1..Len(order) : IsSome(infer_faction_from_building(order[i]))}
    IN IF idx = {} THEN None
       ELSE LET i == CHOOSE a \in idx : \A b \in idx : a <= b
            IN infer_faction_from_building(order[i])

\* what detect_faction_from_buildings can return for a set of building ids
FactionChoices(buildings) ==
    {detect_faction_from_buildings(o) : o \in Orders(buildings)}

\* is_valid_player: some header player has the slot
is_valid_player(hps, slot) == \E i \in 1..Len(hps) : hps[i].slot = slot

EmptyParseResult ==
    [player_builds |-> <<>>,
     player_positions |-> <<>>,
     player_building_ids |-> <<>>,
     defeated_players |-> {},
     endgame_player |-> None,
     endgame_timecode |-> 0,
     has_endgame |-> FALSE,
     max_timecode |-> 0]

Max(a, b) == IF a >= b THEN a ELSE b

\* variant of the record of an end-game event in which the last event is kept
RecordEndGameLast(pr, player_num, tc) ==
    [pr EXCEPT !.endgame_player = Some(player_num),
               !.endgame_timecode = tc,
               !.has_endgame = TRUE]

\* the record of an end-game event, kept when it is the first or not older than the
\* stored one (parse_and_analyze_chunks and raw_scan_for_critical_events)
RecordEndGame(pr, player_num, tc) ==
    [pr EXCEPT !.endgame_player =
                  IF ~pr.has_endgame \/ tc >= pr.endgame_timecode
                  THEN Some(player_num) ELSE @,
               !.endgame_timecode =
                  IF ~pr.has_endgame \/ tc >= pr.endgame_timecode THEN tc ELSE @,
               !.has_endgame = TRUE]

\* the build_positions of parse_and_analyze_chunks after one decoded chunk
BuildPositionsAfter(bp, hps, p2s, chunk) ==
    IF /\ chunk.player_num \in DOMAIN p2s
       /\ is_valid_player(hps, p2s[chunk.player_num])
       /\ chunk.order_type \in {CMD_BUILD_OBJECT, CMD_BUILD_OBJECT_2}
       /\ IsSome(extract_position(chunk))
    THEN MapOrInsert(bp, p2s[chunk.player_num], Get(extract_position(chunk)))
    ELSE bp

\* the unit_positions of parse_and_analyze_chunks after one decoded chunk
UnitPositionsAfter(up, hps, p2s, chunk) ==
    IF /\ chunk.player_num \in DOMAIN p2s
       /\ is_valid_player(hps, p2s[chunk.player_num])
       /\ chunk.order_type = CMD_UNIT_COMMAND
       /\ IsSome(extract_position(chunk))
    THEN MapOrInsert(up, p2s[chunk.player_num], Get(extract_position(chunk)))
    ELSE up

\* the ChunkParseResult of parse_and_analyze_chunks after one decoded chunk
ResultAfterChunk(pr, hps, p2s, chunk) ==
    LET timed == [pr EXCEPT !.max_timecode = Max(@, chunk.time_code)]
    IN IF chunk.player_num \notin DOMAIN p2s THEN timed
       ELSE LET slot == p2s[chunk.player_num]
                valid == is_valid_player(hps, slot)
                bid == extract_building_id(chunk)
                ids == timed.player_building_ids
                r1 == IF /\ valid
                         /\ chunk.order_type \in {CMD_BUILD_OBJECT, CMD_BUILD_OBJECT_2}
                         /\ IsSome(bid)
                      THEN [timed EXCEPT !.player_building_ids =
                              MapInsert(ids, slot,
                                  (IF slot \in DOMAIN ids THEN ids[slot] ELSE {})
                                      \cup {Get(bid)})]
                      ELSE timed
                r2 == IF chunk.order_type = CMD_END_GAME /\ valid
                      THEN RecordEndGame(r1, chunk.player_num, chunk.time_code)
                      ELSE r1
            IN IF chunk.order_type = CMD_PLAYER_DEFEATED /\ valid
               THEN [r2 EXCEPT !.defeated_players = @ \cup {chunk.player_num}]
               ELSE r2

\* variant of the merge in which the unit positions come first
MergePositionsUnitFirst(bp, up) == up @@ bp

\* the merge of the positions: build positions first, unit positions fill the gaps
MergePositions(bp, up) == bp @@ up

\* valid_player_nums: the player numbers whose slot is a header player's
valid_player_nums(hps, p2s) == {pn \in DOMAIN p2s : is_valid_player(hps, p2s[pn])}

----------------------------------------------------------------------------
(* parse_chunk on a stream given byte by byte *)

(* A stream is a sequence of items.  An item of kind "chunk" is the image of a chunk:
   the 13-byte header (time code, order type, player number, number of argument
   types), the descriptors (argument type, argument count) and the arguments; `bytes`
   is what the image takes in the stream.  An item of kind "junk" is one byte that
   belongs to no image, an item of kind "pattern" is the four bytes of an order type
   that belong to no image.  The buffer may end `cut` bytes before the end of the last
   item.  Offsets are counted from chunks_start. *)

\* get_arg_size
get_arg_size(arg_type) ==
    CASE arg_type \in {0, 1, 3, 4, 9, 10} -> 4
      [] arg_type = 2 -> 1
      [] arg_type = 5 -> 8
      [] arg_type \in {6, 7} -> 12
      [] arg_type = 8 -> 16
      [] OTHER -> 4

\* the ChunkArg parse_chunk builds from the bytes `raw` of an argument of type arg_type
DecodeArg(arg_type, raw) ==
    CASE arg_type = 6 -> Vec3(raw.x, raw.y)
      [] arg_type = 0 -> IntArg(raw.v)
      [] arg_type = 1 -> [kind |-> "Float", v |-> raw.v, x |-> 0, y |-> 0]
      [] OTHER -> [kind |-> "Other", v |-> 0, x |-> 0, y |-> 0]

\* the offset of the k-th item of a stream
ItemStart(stream, k) == SumSeq([j \in 1..(k - 1) |-> stream[j].bytes])

\* the index of the item that starts at offset p, or 0
ItemAt(stream, p) ==
    LET ks == {k \in 1..Len(stream) : ItemStart(stream, k) = p}
    IN IF ks = {} THEN 0 ELSE CHOOSE k \in ks : TRUE

\* the header fields read at offset p: those of the chunk image that starts at p; at
\* every other offset the read straddles fields, and the four bytes read as the player
\* number are taken to give 768 (player number 3 shifted by one byte)
MisalignedHeader ==
    [time_code |-> 0, order_type |-> 0, player_num |-> FIRST_PLAYER_NUM * U8_MOD,
     n_arg_types |-> 0]

HeaderAt(d, p) ==
    LET k == ItemAt(d.stream, p)
    IN IF k > 0 /\ d.stream[k].kind = "chunk"
       THEN [time_code |-> d.stream[k].time_code, order_type |-> d.stream[k].order_type,
             player_num |-> d.stream[k].player_num,
             n_arg_types |-> d.stream[k].n_arg_types]
       ELSE MisalignedHeader

\* variant of the loop over the descriptors that takes any argument count
RECURSIVE ReadSigAnyCount(_, _, _, _, _)
ReadSigAnyCount(sig, n_arg_types, j, p, len) ==
    IF j > n_arg_types THEN Some(p)
    ELSE IF p + DESCRIPTOR_LEN > len THEN None
    ELSE ReadSigAnyCount(sig, n_arg_types, j + 1, p + DESCRIPTOR_LEN, len)

\* parse_chunk, the loop over the descriptors: the offset behind the last descriptor,
\* or None when a descriptor ends behind the buffer or its count is above 50
RECURSIVE ReadSig(_, _, _, _, _)
ReadSig(sig, n_arg_types, j, p, len) ==
    IF j > n_arg_types THEN Some(p)
    ELSE IF p + DESCRIPTOR_LEN > len THEN None
    ELSE IF sig[j].count > MAX_SANE_ARG_COUNT THEN None
    ELSE ReadSig(sig, n_arg_types, j + 1, p + DESCRIPTOR_LEN, len)

\* the descriptors as one argument type per argument, in the order of the arguments
RECURSIVE ArgTypes(_)
ArgTypes(sig) ==
    IF sig = <<>> THEN <<>>
    ELSE [i \in 1..sig[1].count |-> sig[1].type] \o ArgTypes(Tail(sig))

\* parse_chunk, the loops over the arguments: the offset behind the last argument, or
\* None when an argument ends behind the buffer
RECURSIVE ReadArgs(_, _, _, _)
ReadArgs(types, i, p, len) ==
    IF i > Len(types) THEN Some(p)
    ELSE IF p + get_arg_size(types[i]) > len THEN None
    ELSE ReadArgs(types, i + 1, p + get_arg_size(types[i]), len)

\* parse_chunk(data, chunks_start + offset): None, or (next offset, chunk)
parse_chunk(d, offset) ==
    IF offset + CHUNK_HEADER_LEN > d.stream_len THEN None
    ELSE LET h == HeaderAt(d, offset)
         IN IF \/ h.time_code > MAX_SANE_TIMECODE
               \/ h.player_num > MAX_SANE_PLAYER_NUM
               \/ h.n_arg_types > MAX_SANE_ARG_TYPES
            THEN None
            ELSE LET im == d.stream[ItemAt(d.stream, offset)]
                     sig_end == ReadSig(im.sig, h.n_arg_types, 1,
                                        offset + CHUNK_HEADER_LEN, d.stream_len)
                 IN IF ~IsSome(sig_end) THEN None
                    ELSE LET types == ArgTypes(im.sig)
                             end == ReadArgs(types, 1, Get(sig_end), d.stream_len)
                         IN IF ~IsSome(end) THEN None
                            ELSE Some([next_pos |-> Get(end),
                                       chunk |->
                                          [time_code |-> h.time_code,
                                           order_type |-> h.order_type,
                                           player_num |-> h.player_num,
                                           args |-> [i \in 1..Len(types) |->
                                                       DecodeArg(types[i], im.raw[i])]]])

----------------------------------------------------------------------------
(* Resynchronization Scanner *)

\* variant of the condition of the raw scanner without the lower bounds and with the
\* sanity limits of parse_chunk
RawRecordsAsParseChunk(valid_pns, m) ==
    /\ m.in_stream /\ m.fits
    /\ m.tc <= MAX_SANE_TIMECODE
    /\ m.player_num <= MAX_SANE_PLAYER_NUM
    /\ m.n_args <= MAX_SANE_ARG_TYPES
    /\ m.player_num \in valid_pns

\* the condition under which raw_scan_for_critical_events records the event of a match
RawRecords(valid_pns, m) ==
    /\ m.in_stream /\ m.fits
    /\ m.tc > 0 /\ m.tc < MAX_SANE_TIMECODE
    /\ m.player_num >= RAW_MIN_PN /\ m.player_num <= RAW_MAX_PN
    /\ m.n_args <= RAW_MAX_NARGS
    /\ m.player_num \in valid_pns

\* raw_scan_for_critical_events at one pattern match: m.cmd is the order matched,
\* m.in_stream says that the candidate chunk start i - 4 is not before chunks_start,
\* m.fits that its 13-byte header ends inside the buffer
ResultAfterMatch(pr, valid_pns, m) ==
    IF RawRecords(valid_pns, m)
    THEN IF m.cmd = CMD_PLAYER_DEFEATED
         THEN [pr EXCEPT !.defeated_players = @ \cup {m.player_num}]
         ELSE IF m.cmd = CMD_END_GAME
              THEN RecordEndGame(pr, m.player_num, m.tc)
              ELSE pr
    ELSE pr

\* the order whose four bytes stand at offset i of the stream: the order field of a
\* chunk image that starts four bytes earlier, or a pattern that belongs to no image
PatternAt(d, i) ==
    LET k == ItemAt(d.stream, i)
        c == ItemAt(d.stream, i - PATTERN_LEN)
    IN IF k > 0 /\ d.stream[k].kind = "pattern" THEN Some(d.stream[k].order_type)
       ELSE IF /\ c > 0 /\ d.stream[c].kind = "chunk"
               /\ d.stream[c].order_type \in {CMD_PLAYER_DEFEATED, CMD_END_GAME}
            THEN Some(d.stream[c].order_type)
            ELSE None

\* the match of the pattern `cmd` at offset i, with the fields of the candidate chunk
\* at i - 4; the scanner reads them only when the candidate starts inside the stream
\* and its header ends inside the buffer (for a header that does not fit they are
\* those of the image that was cut)
MatchAt(d, i, cmd) ==
    LET in_stream == i >= PATTERN_LEN
        fits == (i - PATTERN_LEN) + CHUNK_HEADER_LEN <= d.stream_len
        h == IF in_stream THEN HeaderAt(d, i - PATTERN_LEN) ELSE MisalignedHeader
    IN [cmd |-> cmd, tc |-> h.time_code, player_num |-> h.player_num,
        n_args |-> h.n_arg_types, in_stream |-> in_stream, fits |-> fits]

----------------------------------------------------------------------------
(* Winner Inference *)

\* determine_team_sides: for each team, the side of its first player (in roster order)
\* that has a valid position
determine_team_sides(ps) ==
    LET Positioned(i) == IsSome(ps[i].map_position) /\ is_valid(Get(ps[i].map_position))
        teams == {ps[i].team_raw : i \in {j \in 1..Len(ps) : Positioned(j)}}
    IN [t \in teams |->
          LET i == CHOOSE a \in 1..Len(ps) :
                      /\ ps[a].team_raw = t /\ Positioned(a)
                      /\ \A b \in 1..(a - 1) : ~(ps[b].team_raw = t /\ Positioned(b))
          IN IF Get(ps[i].map_position).x < MAP_X_MIDPOINT THEN "Left" ELSE "Right"]

\* remap_teams_by_side
remap_teams_by_side(ps, sides) ==
    [i \in 1..Len(ps) |->
        IF ps[i].team_raw \in DOMAIN sides
        THEN [ps[i] EXCEPT !.team = IF sides[ps[i].team_raw] = "Left" THEN 1 ELSE 2]
        ELSE ps[i]]

\* side_to_winner
side_to_winner(side) == IF side = "Left" THEN "LeftTeam" ELSE "RightTeam"

\* side_to_likely_winner
side_to_likely_winner(side) == IF side = "Left" THEN "LikelyLeftTeam" ELSE "LikelyRightTeam"

\* the first header player with the slot (Iterator::find)
FindBySlot(hps, slot) ==
    LET idx == {i \in 1..Len(hps) : hps[i].slot = slot}
    IN IF idx = {} THEN None
       ELSE Some(hps[CHOOSE a \in idx : \A b \in idx : a <= b])

\* winner_from_endgame
winner_from_endgame(combat, hps, sides, p2s) ==
    IF ~IsSome(combat.endgame_player) THEN None
    ELSE IF Get(combat.endgame_player) \notin DOMAIN p2s THEN None
    ELSE LET hp == FindBySlot(hps, p2s[Get(combat.endgame_player)])
         IN IF ~IsSome(hp) THEN None
            ELSE IF Get(hp).team_raw \notin DOMAIN sides THEN None
            ELSE Some(side_to_winner(sides[Get(hp).team_raw]))

\* what slot_to_pn of determine_winner can be: collecting pn_to_slot into a map keyed
\* by slot keeps, for each slot, the player number the iteration visits last
SlotToPnChoices(p2s) ==
    {f \in [{p2s[pn] : pn \in DOMAIN p2s} -> DOMAIN p2s] :
        \A s \in DOMAIN f : p2s[f[s]] = s}

\* team_players of determine_winner: team_raw -> the player numbers of its players
TeamPlayers(hps, slot_to_pn) ==
    LET mapped == SelectSeq(hps, LAMBDA hp : hp.slot \in DOMAIN slot_to_pn)
    IN [t \in {mapped[i].team_raw : i \in 1..Len(mapped)} |->
          LET mine == SelectSeq(mapped, LAMBDA hp : hp.team_raw = t)
          IN [i \in 1..Len(mine) |-> slot_to_pn[mine[i].slot]]]

\* Iterator::all over the player numbers of a team
AllDefeated(defeated, pns) == \A i \in 1..Len(pns) : pns[i] \in defeated

\* winner_from_full_defeat, team_players iterated in the order `order`
winner_from_full_defeat(defeated, team_players, sides, order) ==
    LET Other(i) == {j \in 1..Len(order) : order[j] /= order[i] /\ order[j] \in DOMAIN sides}
        lost == {i \in 1..Len(order) :
                    AllDefeated(defeated, team_players[order[i]]) /\ Other(i) /= {}}
    IN IF lost = {} THEN None
       ELSE LET i == CHOOSE a \in lost : \A b \in lost : a <= b
                j == CHOOSE a \in Other(i) : \A b \in Other(i) : a <= b
            IN Some(side_to_winner(sides[order[j]]))

\* the number of player numbers of a team that are in the defeated-set
Defeats(defeated, pns) == Cardinality({i \in 1..Len(pns) : pns[i] \in defeated})

\* winner_from_majority_defeated, team_players iterated in the order `order`
winner_from_majority_defeated(defeated, team_players, sides, order) ==
    IF Len(order) /= 2 THEN None
    ELSE LET team_a == order[1]
             team_b == order[2]
             defeats_a == Defeats(defeated, team_players[team_a])
             defeats_b == Defeats(defeated, team_players[team_b])
         IN IF defeats_a > defeats_b
            THEN IF team_b \in DOMAIN sides THEN Some(side_to_likely_winner(sides[team_b]))
                 ELSE None
            ELSE IF defeats_b > defeats_a
                 THEN IF team_a \in DOMAIN sides
                      THEN Some(side_to_likely_winner(sides[team_a])) ELSE None
                 ELSE None

\* Option::or_else
OrElse(o, alt) == IF IsSome(o) THEN o ELSE alt

\* determine_winner, with the slot_to_pn the collect produced and the iteration order
\* of team_players
determine_winner(pr, hps, sides, p2s, slot_to_pn, order) ==
    LET team_players == TeamPlayers(hps, slot_to_pn)
        s1 == winner_from_endgame(pr, hps, sides, p2s)
        s2 == IF pr.defeated_players = {} THEN None
              ELSE winner_from_full_defeat(pr.defeated_players, team_players, sides, order)
        s3 == IF pr.defeated_players = {} THEN None
              ELSE winner_from_majority_defeated(pr.defeated_players, team_players,
                                                 sides, order)
    IN UnwrapOr(OrElse(OrElse(s1, s2), s3), "Unknown")

----------------------------------------------------------------------------
(* build_safe_content: src/src/bot/constants.rs.  A String is the sequence of its
   characters. *)

\* the string of n characters c
Repeat(c, n) == [i \in 1..n |-> c]

\* the decimal digits of n, as format!("{}") writes them
RECURSIVE ToDecimal(_)
ToDecimal(n) ==
    LET digit == <<"0", "1", "2", "3", "4", "5", "6", "7", "8", "9">>[(n % 10) + 1]
    IN IF n < 10 THEN <<digit>> ELSE Append(ToDecimal(n \div 10), digit)

\* format!("\n(+{} more...)", skipped)
Suffix(skipped) ==
    <<"\n", "(", "+">> \o ToDecimal(skipped)
        \o <<" ", "m", "o", "r", "e", ".", ".", ".", ")">>

\* part.chars().take(n).collect()
Take(s, n) == SubSeq(s, 1, IF Len(s) < n THEN Len(s) ELSE n)

\* the loop of build_safe_content from the part of index i (counted from 0) on
RECURSIVE build_safe_content_from(_, _, _, _)
build_safe_content_from(prts, i, result, current_chars) ==
    IF i >= Len(prts) THEN result
    ELSE LET part == prts[i + 1]
             part_chars == Len(part)
             newline_cost == IF result = <<>> THEN 0 ELSE 1
             needed == newline_cost + part_chars
         IN IF current_chars + needed > CONTENT_SAFE_LIMIT
            THEN IF i = 0 THEN Take(part, CONTENT_SAFE_LIMIT)
                 ELSE LET suffix == Suffix(Len(prts) - i)
                      IN IF current_chars + Len(suffix) <= CONTENT_SAFE_LIMIT
                         THEN result \o suffix
                         ELSE result
            ELSE build_safe_content_from(prts, i + 1,
                    (IF result /= <<>> THEN Append(result, "\n") ELSE result) \o part,
                    current_chars + needed)

\* build_safe_content
build_safe_content(prts) == build_safe_content_from(prts, 0, <<>>, 0)

----------------------------------------------------------------------------
(* The inputs *)

\* the M= field of a buffer: absent, empty, not UTF-8, or a path
MapFields ==
    {[present |-> FALSE, utf8 |-> TRUE, path |-> <<>>],
     [present |-> TRUE, utf8 |-> TRUE, path |-> <<>>],
     [present |-> TRUE, utf8 |-> FALSE, path |-> <<"map wor rhun">>],
     [present |-> TRUE, utf8 |-> TRUE, path |-> <<"385", "maps/", "map wor rhun">>],
     [present |-> TRUE, utf8 |-> TRUE, path |-> <<"maps/", "fords of isen">>],
     [present |-> TRUE, utf8 |-> TRUE, path |-> <<"Map Wor Rhun">>],
     [present |-> TRUE, utf8 |-> TRUE, path |-> <<"a">>]}

RhunMap == [present |-> TRUE, utf8 |-> TRUE, path |-> <<"385", "maps/", "map wor rhun">>]

\* slot strings: players of team 0, 1 and 127, a spectator, an empty slot
SlotStrings ==
    {PlayerString("HGusto", "-1", "-1", "0"),
     PlayerString("HAlice", "2", "0", "1"),
     PlayerString("HBob", "-1", "-1", "127"),
     PlayerString("HBob", "2", "0", "-1"),
     <<"X">>}

\* the number of "X" strings before a slot string: none, or enough to pass slot 255
Skips == {0, U8_MOD - 1}

\* the sequences over S of length at most n
SeqUpTo(S, n) == UNION {[1..k -> S] : k \in 0..n}

Rosters(strings, n) == SeqUpTo([skip : Skips, str : strings], n)

\* the rosters of the buffers with a longer stream: players of team 0 (Gusto) and of
\* team 1 (Alice, and Bob behind 255 empty slots, whose slot index passes 255)
StreamRosters ==
    LET gusto == [skip |-> 0, str |-> PlayerString("HGusto", "-1", "-1", "0")]
        alice == [skip |-> 0, str |-> PlayerString("HAlice", "2", "0", "1")]
        bob == [skip |-> U8_MOD - 1, str |-> PlayerString("HBob", "-1", "-1", "1")]
    IN {<<alice>>, <<gusto, alice>>, <<alice, gusto, bob>>, <<gusto, bob, alice>>}

\* the rosters of the buffers whose winner comes from the defeated-set: a team of one
\* against a team of two and of three, three teams, and a team of one against a team
\* of two one of whom stands behind 255 empty slots
WinnerRosters ==
    LET gusto == [skip |-> 0, str |-> PlayerString("HGusto", "-1", "-1", "0")]
        alice == [skip |-> 0, str |-> PlayerString("HAlice", "2", "0", "1")]
        carol == [skip |-> 0, str |-> PlayerString("HCarol", "-1", "-1", "1")]
        dave == [skip |-> 0, str |-> PlayerString("HDave", "-1", "-1", "1")]
        eve == [skip |-> 0, str |-> PlayerString("HEve", "-1", "-1", "2")]
        bob == [skip |-> U8_MOD - 1, str |-> PlayerString("HBob", "-1", "-1", "1")]
    IN {<<gusto, alice, carol>>, <<gusto, alice, carol, dave>>, <<gusto, alice, eve>>,
        <<gusto, bob, alice>>}

\* the stream length that lets the decode loop start n chunk parses
StreamLenFor(n) == IF n = 0 THEN 0 ELSE CHUNK_HEADER_LEN * n + 1

\* buffers with any header; a stream, behind a roster of at most one slot string, has
\* at most one chunk
HeaderInputs ==
    {d \in [sig : {MAGIC, "NOTMAGIC"}, map : MapFields, has_s : BOOLEAN,
            roster : Rosters(SlotStrings, MaxEntries), has_nul : BOOLEAN,
            stream_len : {StreamLenFor(0), StreamLenFor(1)}] :
        /\ (~d.has_s => d.roster = <<>>)
        /\ (~d.has_nul => d.stream_len = 0)
        /\ (d.stream_len > 0 => Len(d.roster) <= 1)}

\* buffers with a supported map, a roster of players and a stream of several chunks
StreamInputs ==
    {d \in [sig : {MAGIC}, map : {RhunMap}, has_s : {TRUE},
            roster : StreamRosters, has_nul : BOOLEAN,
            stream_len : {0, StreamLenFor(MaxChunks)}] :
        d.has_nul <=> d.stream_len > 0}

\* buffers with a supported map, a roster of WinnerRosters and a stream of several chunks
WinnerInputs ==
    {d \in [sig : {MAGIC}, map : {RhunMap}, has_s : {TRUE},
            roster : WinnerRosters, has_nul : BOOLEAN,
            stream_len : {0, StreamLenFor(MaxChunks)}] :
        d.has_nul <=> d.stream_len > 0}

\* explicit colour ids of the rosters of SpecColors
ExplicitColors == {"2", "5", "8", "9"}

\* a roster of players of one team: `colors` are the colour fields of its slot strings
ColorRoster(colors) ==
    [i \in 1..Len(colors) |->
        [skip |-> 0, str |-> PlayerString("HGusto", colors[i], "-1", "0")]]

\* buffers without a chunk stream whose roster is a run of players with explicit colour
\* ids and a run of players with colour id -1, in either order
ColorInputs ==
    {[sig |-> MAGIC, map |-> RhunMap, has_s |-> TRUE,
      roster |-> ColorRoster(IF explicit_first THEN e \o [i \in 1..n |-> "-1"]
                                               ELSE [i \in 1..n |-> "-1"] \o e),
      has_nul |-> FALSE, stream_len |-> 0] :
        e \in SeqUpTo(ExplicitColors, MaxExplicit), n \in 0..MaxRandom,
        explicit_first \in BOOLEAN}

\* the arguments of a build or unit command: a position left or right of the middle
\* of the map (or the origin), then a building id of Men or Elves (or no building id)
LeftMen == <<Vec3(1000, 500), IntArg(2650)>>
RightElves == <<IntArg(7), Vec3(3000, 500), IntArg(2600)>>
Origin == <<Vec3(0, 0)>>

PlayerNums == FIRST_PLAYER_NUM..(FIRST_PLAYER_NUM + 2)

Chunk(tc, order, pn, args) ==
    [time_code |-> tc, order_type |-> order, player_num |-> pn, args |-> args]

\* the chunks parse_chunk can return from the streams of the model
Chunks ==
    {Chunk(1, CMD_BUILD_OBJECT, pn, a) : pn \in PlayerNums, a \in {LeftMen, RightElves}}
    \cup {Chunk(1, CMD_BUILD_OBJECT_2, FIRST_PLAYER_NUM, Origin)}
    \cup {Chunk(1, CMD_UNIT_COMMAND, FIRST_PLAYER_NUM, RightElves)}
    \cup {Chunk(tc, CMD_END_GAME, pn, <<>>) : tc \in {5, 10}, pn \in PlayerNums}
    \cup {Chunk(4, CMD_PLAYER_DEFEATED, pn, <<>>) : pn \in PlayerNums}
    \cup {Chunk(0, 1000, FIRST_PLAYER_NUM, <<>>)}

\* the pattern matches raw_scan_for_critical_events can meet in the streams of the model
Match(cmd, tc, pn, n_args, in_stream, fits) ==
    [cmd |-> cmd, tc |-> tc, player_num |-> pn, n_args |-> n_args,
     in_stream |-> in_stream, fits |-> fits]

Matches ==
    {Match(cmd, 10, pn, 0, TRUE, TRUE) :
        cmd \in {CMD_END_GAME, CMD_PLAYER_DEFEATED}, pn \in PlayerNums}
    \cup {Match(CMD_PLAYER_DEFEATED, 0, FIRST_PLAYER_NUM, 0, TRUE, TRUE),
          Match(CMD_PLAYER_DEFEATED, MAX_SANE_TIMECODE, FIRST_PLAYER_NUM, 0, TRUE, TRUE),
          Match(CMD_END_GAME, 10, RAW_MAX_PN + 1, 0, TRUE, TRUE),
          Match(CMD_END_GAME, 10, FIRST_PLAYER_NUM, RAW_MAX_NARGS + 1, TRUE, TRUE),
          Match(CMD_END_GAME, 10, FIRST_PLAYER_NUM, 0, FALSE, TRUE),
          Match(CMD_PLAYER_DEFEATED, 10, FIRST_PLAYER_NUM, 0, TRUE, FALSE)}

\* the bytes of an argument, as the values its readings give
Raw(v, x, y) == [v |-> v, x |-> x, y |-> y]

\* a descriptor of parse_chunk: argument type and argument count
Desc(type, count) == [type |-> type, count |-> count]

\* the image of a chunk with its descriptors and all its arguments
Image(tc, order, pn, sig, raw) ==
    [kind |-> "chunk", time_code |-> tc, order_type |-> order, player_num |-> pn,
     n_arg_types |-> Len(sig), sig |-> sig, raw |-> raw,
     bytes |-> CHUNK_HEADER_LEN + DESCRIPTOR_LEN * Len(sig)
               + SumSeq([j \in 1..Len(sig) |-> get_arg_size(sig[j].type) * sig[j].count])]

\* the image of a chunk that says n_arg_types argument types and holds the descriptors
\* `sig` and no argument
Stub(tc, order, pn, n_arg_types, sig) ==
    [kind |-> "chunk", time_code |-> tc, order_type |-> order, player_num |-> pn,
     n_arg_types |-> n_arg_types, sig |-> sig, raw |-> <<>>,
     bytes |-> CHUNK_HEADER_LEN + DESCRIPTOR_LEN * Len(sig)]

Junk ==
    [kind |-> "junk", time_code |-> 0, order_type |-> 0, player_num |-> 0,
     n_arg_types |-> 0, sig |-> <<>>, raw |-> <<>>, bytes |-> 1]

Pattern(cmd) ==
    [kind |-> "pattern", time_code |-> 0, order_type |-> cmd, player_num |-> 0,
     n_arg_types |-> 0, sig |-> <<>>, raw |-> <<>>, bytes |-> PATTERN_LEN]

\* the items of the longer streams: build, unit, end-game and defeat chunks of the
\* player numbers 3, 4 and 5, a chunk of a player number that is not mapped, an
\* end-game chunk whose descriptor says 51 arguments, a defeat chunk with the highest
\* sane time code, and a junk byte
Items ==
    {Junk,
     Image(1, CMD_BUILD_OBJECT, FIRST_PLAYER_NUM, <<Desc(6, 1), Desc(0, 1)>>,
           <<Raw(0, 1000, 500), Raw(2650, 0, 0)>>),
     Image(2, CMD_BUILD_OBJECT_2, FIRST_PLAYER_NUM, <<Desc(6, 1)>>, <<Raw(0, 3000, 500)>>),
     Image(3, CMD_UNIT_COMMAND, FIRST_PLAYER_NUM, <<Desc(6, 1)>>, <<Raw(0, 2000, 700)>>),
     Image(10, CMD_END_GAME, FIRST_PLAYER_NUM, <<>>, <<>>),
     Image(5, CMD_END_GAME, FIRST_PLAYER_NUM + 1, <<>>, <<>>),
     Image(7, CMD_PLAYER_DEFEATED, FIRST_PLAYER_NUM + 1, <<>>, <<>>),
     Image(4, CMD_BUILD_OBJECT, FIRST_PLAYER_NUM + 2, <<Desc(6, 1), Desc(0, 1)>>,
           <<Raw(0, 3000, 500), Raw(2600, 0, 0)>>),
     Image(8, CMD_END_GAME, FIRST_PLAYER_NUM + 2, <<>>, <<>>),
     Image(30, 1000, MAX_SANE_PLAYER_NUM - 1, <<>>, <<>>),
     Stub(20, CMD_END_GAME, FIRST_PLAYER_NUM, 1, <<Desc(0, MAX_SANE_ARG_COUNT + 1)>>),
     Image(MAX_SANE_TIMECODE, CMD_PLAYER_DEFEATED, FIRST_PLAYER_NUM, <<>>, <<>>)}

\* further items, of streams of one item: chunks that fail one sanity check each, a
\* chunk of eleven argument types without arguments, a chunk with arguments of several
\* sizes, an end-game chunk of time code 0, chunks with 51 and with 50 arguments of one
\* type, and a pattern at the start of the stream
OddItems ==
    {Image(MAX_SANE_TIMECODE + 1, CMD_PLAYER_DEFEATED, FIRST_PLAYER_NUM, <<>>, <<>>),
     Image(9, CMD_END_GAME, MAX_SANE_PLAYER_NUM + 1, <<>>, <<>>),
     Image(9, CMD_END_GAME, RAW_MAX_PN + 1, <<>>, <<>>),
     Stub(9, CMD_END_GAME, FIRST_PLAYER_NUM, MAX_SANE_ARG_TYPES + 1, <<>>),
     Image(12, CMD_END_GAME, FIRST_PLAYER_NUM,
           [j \in 1..(RAW_MAX_NARGS + 1) |-> Desc(2, 0)], <<>>),
     Image(6, CMD_UNIT_COMMAND, FIRST_PLAYER_NUM,
           <<Desc(2, 3), Desc(1, 1), Desc(5, 1), Desc(8, 1), Desc(11, 1)>>,
           <<Raw(1, 0, 0), Raw(0, 0, 0), Raw(1, 0, 0), Raw(7, 0, 0), Raw(0, 9, 9),
             Raw(0, 0, 0), Raw(5, 0, 0)>>),
     Image(0, CMD_END_GAME, FIRST_PLAYER_NUM + 1, <<>>, <<>>),
     Image(9, CMD_UNIT_COMMAND, FIRST_PLAYER_NUM, <<Desc(2, MAX_SANE_ARG_COUNT + 1)>>,
           [j \in 1..(MAX_SANE_ARG_COUNT + 1) |-> Raw(1, 0, 0)]),
     Image(9, CMD_UNIT_COMMAND, FIRST_PLAYER_NUM, <<Desc(2, MAX_SANE_ARG_COUNT)>>,
           [j \in 1..MAX_SANE_ARG_COUNT |-> Raw(1, 0, 0)]),
     Pattern(CMD_END_GAME)}

\* the rosters of SpecDecode: Gusto (team 0), Alice (team 1) and the spectator Bob with
\* the player numbers 3, 4 and 5; Gusto and the spectator Bob behind 255 empty slots,
\* whose slot index passes 255
DecodeRoster ==
    <<[skip |-> 0, str |-> PlayerString("HGusto", "-1", "-1", "0")],
      [skip |-> 0, str |-> PlayerString("HAlice", "2", "0", "1")],
      [skip |-> 0, str |-> PlayerString("HBob", "2", "0", "-1")]>>

WrappedSpectatorRoster ==
    <<[skip |-> 0, str |-> PlayerString("HGusto", "-1", "-1", "0")],
      [skip |-> U8_MOD - 1, str |-> PlayerString("HBob", "2", "0", "-1")]>>

\* the header timestamps (start, end) of the buffers: end behind start, equal, before
Timestamps == {<<1000, 1817>>, <<1000, 1000>>, <<1817, 1000>>}

\* the streams of the buffers whose timestamps vary: no chunk, a chunk of a player
\* number that is not mapped, a build chunk, an end-game chunk (and a last byte)
TimedStreams ==
    {<<>>,
     <<Image(30, 1000, MAX_SANE_PLAYER_NUM - 1, <<>>, <<>>), Junk>>,
     <<Image(2, CMD_BUILD_OBJECT_2, FIRST_PLAYER_NUM, <<Desc(6, 1)>>, <<Raw(0, 3000, 500)>>)>>,
     <<Image(10, CMD_END_GAME, FIRST_PLAYER_NUM, <<>>, <<>>), Junk>>}

\* a buffer with a supported map, a roster, the timestamps and the stream `stream`
\* behind the NUL, the last `cut` bytes of the stream left out
DecodeInput(roster, times, stream, cut) ==
    [sig |-> MAGIC, map |-> RhunMap, has_s |-> TRUE, roster |-> roster,
     has_nul |-> TRUE, stream |-> stream,
     stream_len |-> SumSeq([j \in 1..Len(stream) |-> stream[j].bytes]) - cut,
     start_time |-> times[1], end_time |-> times[2]]

\* buffers whose stream is given byte by byte: streams of one item, whole or cut;
\* junk before and behind a build chunk; buffers with each of the timestamps, one of
\* them without a NUL
CutInputs ==
    {DecodeInput(DecodeRoster, <<1000, 1817>>, <<c[1]>>, c[2]) :
        c \in {x \in (Items \cup OddItems) \X (0..MaxCut) : x[2] < x[1].bytes}}
    \cup {DecodeInput(DecodeRoster, <<1000, 1817>>,
                      <<Junk, Junk,
                        Image(2, CMD_BUILD_OBJECT_2, FIRST_PLAYER_NUM, <<Desc(6, 1)>>,
                              <<Raw(0, 3000, 500)>>),
                        Junk>>, 0)}
    \cup {DecodeInput(DecodeRoster, ts, s, 0) : ts \in Timestamps, s \in TimedStreams}
    \cup {[DecodeInput(DecodeRoster, ts, <<>>, 0) EXCEPT !.has_nul = FALSE] :
              ts \in Timestamps}

\* these, the streams of several items, and the streams behind the roster with the
\* wrapped slot
DecodeInputs ==
    CutInputs
    \cup {DecodeInput(DecodeRoster, <<1000, 1817>>, s, 0) : s \in SeqUpTo(Items, MaxItems)}
    \cup {DecodeInput(WrappedSpectatorRoster, <<1000, 1817>>, s, 0) :
              s \in SeqUpTo(Items, 1)}

----------------------------------------------------------------------------
(* parse_replay *)

NoReturn == [kind |-> "running", map_name |-> <<>>]
Err(kind) == [kind |-> kind, map_name |-> <<>>]
NoHeader == [map_name |-> <<>>, players |-> <<>>, spectators |-> <<>>,
             occupied_slots |-> <<>>, chunks_start |-> None]

InitWith(inputs) ==
    /\ data \in inputs
    /\ pc = "start"
    /\ calls = {}
    /\ hdr = NoHeader
    /\ header_players = <<>>
    /\ pn_to_slot = <<>>
    /\ players = <<>>
    /\ build_positions = <<>>
    /\ unit_positions = <<>>
    /\ parse_result = EmptyParseResult
    /\ n_chunks = 0
    /\ n_raw = 0
    /\ team_sides = <<>>
    /\ winner = "Unknown"
    /\ game_crashed = FALSE
    /\ estimated_duration_secs = None
    /\ ret = NoReturn
    /\ pos = 0
    /\ scan_i = 0
    /\ decoded = <<>>
    /\ scanned = <<>>
    /\ duration = None
    /\ parts = <<>>
    /\ content = None
    /\ NoPaging

Init == InitWith(HeaderInputs)

\* parse_replay returns r
Return(r) == pc' = "done" /\ ret' = r

\* variant of the magic check that tests the length of the signature only
CheckMagicSigOnly ==
    /\ pc = "start"
    /\ IF DataLen(data) < MAGIC_LEN \/ data.sig /= MAGIC
       THEN Return(Err("InvalidHeader"))
       ELSE pc' = "parse_header" /\ UNCHANGED ret
    /\ UNCHANGED <<data, calls, hdr, header_players, pn_to_slot, players,
                   build_positions, unit_positions, parse_result, n_chunks, n_raw,
                   team_sides, winner, game_crashed, estimated_duration_secs>>
    /\ UNCHANGED <<stream_vars, caller_vars>>

\* the magic check
CheckMagic ==
    /\ pc = "start"
    /\ IF DataLen(data) < MAGIC_LEN + MIN_AFTER_MAGIC \/ data.sig /= MAGIC
       THEN Return(Err("InvalidHeader"))
       ELSE pc' = "parse_header" /\ UNCHANGED ret
    /\ UNCHANGED <<data, calls, hdr, header_players, pn_to_slot, players,
                   build_positions, unit_positions, parse_result, n_chunks, n_raw,
                   team_sides, winner, game_crashed, estimated_duration_secs>>
    /\ UNCHANGED <<stream_vars, caller_vars>>

\* parse_header: the map name, then the roster, then the start of the chunks
ParseHeader ==
    /\ pc = "parse_header"
    /\ IF ~IsSome(find_map_name_in(data))
       THEN /\ Return(Err("ParseError"))
            /\ calls' = calls \cup {"find_map_name_in"}
            /\ UNCHANGED hdr
       ELSE /\ hdr' = [map_name |-> Get(find_map_name_in(data)),
                       players |-> find_players_and_spectators_in(data).players,
                       spectators |-> find_players_and_spectators_in(data).spectators,
                       occupied_slots |-> find_players_and_spectators_in(data).occupied_slots,
                       chunks_start |-> find_chunks_start(data)]
            /\ calls' = calls \cup {"find_map_name_in", "find_players_and_spectators_in",
                                    "find_chunks_start"}
            /\ pc' = "map_filter"
            /\ UNCHANGED ret
    /\ UNCHANGED <<data, header_players, pn_to_slot, players,
                   build_positions, unit_positions, parse_result, n_chunks, n_raw,
                   team_sides, winner, game_crashed, estimated_duration_secs>>
    /\ UNCHANGED <<stream_vars, caller_vars>>

\* variant of the filter that looks at the roster first
MapFilterAfterRoster ==
    /\ pc = "map_filter"
    /\ IF hdr.players = <<>>
       THEN Return(Err("NoPlayers"))
       ELSE IF ~ContainsWorRhun(hdr.map_name)
       THEN Return([kind |-> "UnsupportedMap", map_name |-> hdr.map_name])
       ELSE pc' = "check_players" /\ UNCHANGED ret
    /\ UNCHANGED <<data, calls, hdr, header_players, pn_to_slot, players,
                   build_positions, unit_positions, parse_result, n_chunks, n_raw,
                   team_sides, winner, game_crashed, estimated_duration_secs>>
    /\ UNCHANGED <<stream_vars, caller_vars>>

\* the filter on the map name
MapFilter ==
    /\ pc = "map_filter"
    /\ IF ~ContainsWorRhun(hdr.map_name)
       THEN Return([kind |-> "UnsupportedMap", map_name |-> hdr.map_name])
       ELSE pc' = "check_players" /\ UNCHANGED ret
    /\ UNCHANGED <<data, calls, hdr, header_players, pn_to_slot, players,
                   build_positions, unit_positions, parse_result, n_chunks, n_raw,
                   team_sides, winner, game_crashed, estimated_duration_secs>>
    /\ UNCHANGED <<stream_vars, caller_vars>>

\* pn_to_slot: player number 3 + i for the i-th occupied slot
build_pn_to_slot(occupied_slots) ==
    [pn \in FIRST_PLAYER_NUM..(FIRST_PLAYER_NUM + Len(occupied_slots) - 1) |->
        occupied_slots[pn - FIRST_PLAYER_NUM + 1]]

\* the NoPlayers check and the player-number mapping
CheckPlayers ==
    /\ pc = "check_players"
    /\ header_players' = hdr.players
    /\ IF hdr.players = <<>>
       THEN Return(Err("NoPlayers")) /\ UNCHANGED pn_to_slot
       ELSE /\ pn_to_slot' = build_pn_to_slot(hdr.occupied_slots)
            /\ pc' = "assign_colors"
            /\ UNCHANGED ret
    /\ UNCHANGED <<data, calls, hdr, players,
                   build_positions, unit_positions, parse_result, n_chunks, n_raw,
                   team_sides, winner, game_crashed, estimated_duration_secs>>
    /\ UNCHANGED <<stream_vars, caller_vars>>

\* assign_player_colors(&mut header_players)
AssignColors ==
    /\ pc = "assign_colors"
    /\ header_players' = assign_player_colors(header_players)
    /\ calls' = calls \cup {"assign_player_colors"}
    /\ pc' = "build_players"
    /\ UNCHANGED <<data, hdr, pn_to_slot, players,
                   build_positions, unit_positions, parse_result, n_chunks, n_raw,
                   team_sides, winner, game_crashed, estimated_duration_secs, ret>>
    /\ UNCHANGED <<stream_vars, caller_vars>>

\* build_players(&header_players): an i8 sum that overflows panics in a build with
\* overflow checks and wraps in a build without
BuildPlayers ==
    /\ pc = "build_players"
    /\ calls' = calls \cup {"build_players"}
    /\ \E overflow_checks \in BOOLEAN :
          IF overflow_checks /\ build_players_overflows(header_players)
          THEN Return(Err("panic")) /\ UNCHANGED players
          ELSE /\ players' = build_players(header_players)
               /\ pc' = IF IsSome(hdr.chunks_start) THEN "chunks" ELSE "finish"
               /\ UNCHANGED ret
    /\ UNCHANGED <<data, hdr, header_players, pn_to_slot,
                   build_positions, unit_positions, parse_result, n_chunks, n_raw,
                   team_sides, winner, game_crashed, estimated_duration_secs>>
    /\ UNCHANGED <<stream_vars, caller_vars>>

\* one iteration of the decode loop of parse_and_analyze_chunks in which parse_chunk
\* returns a chunk
DecodeChunk ==
    /\ pc = "chunks"
    /\ n_chunks < MaxChunks
    /\ CHUNK_HEADER_LEN * (n_chunks + 1) < data.stream_len
    /\ \E chunk \in Chunks :
          /\ chunk.time_code <= MAX_SANE_TIMECODE
          /\ chunk.player_num <= MAX_SANE_PLAYER_NUM
          /\ parse_result' = ResultAfterChunk(parse_result, header_players, pn_to_slot, chunk)
          /\ build_positions' = BuildPositionsAfter(build_positions, header_players,
                                                    pn_to_slot, chunk)
          /\ unit_positions' = UnitPositionsAfter(unit_positions, header_players,
                                                  pn_to_slot, chunk)
    /\ n_chunks' = n_chunks + 1
    /\ calls' = calls \cup {"parse_and_analyze_chunks"}
    /\ UNCHANGED <<data, pc, hdr, header_players, pn_to_slot, players, n_raw,
                   team_sides, winner, game_crashed, estimated_duration_secs, ret>>
    /\ UNCHANGED <<stream_vars, caller_vars>>

\* the decode loop ends; the positions are merged
EndChunks ==
    /\ pc = "chunks"
    /\ parse_result' = [parse_result EXCEPT !.player_positions =
                            MergePositions(build_positions, unit_positions)]
    /\ calls' = calls \cup {"parse_and_analyze_chunks"}
    /\ pc' = "raw_scan"
    /\ UNCHANGED <<data, hdr, header_players, pn_to_slot, players,
                   build_positions, unit_positions, n_chunks, n_raw,
                   team_sides, winner, game_crashed, estimated_duration_secs, ret>>
    /\ UNCHANGED <<stream_vars, caller_vars>>

\* raw_scan_for_critical_events meets a pattern match
RawMatch ==
    /\ pc = "raw_scan"
    /\ n_raw < MaxRaw
    /\ DataLen(data) >= Get(hdr.chunks_start) + RAW_MIN_SPAN
    /\ \E m \in Matches :
          parse_result' = ResultAfterMatch(parse_result,
                              valid_player_nums(header_players, pn_to_slot), m)
    /\ n_raw' = n_raw + 1
    /\ calls' = calls \cup {"raw_scan_for_critical_events"}
    /\ UNCHANGED <<data, pc, hdr, header_players, pn_to_slot, players,
                   build_positions, unit_positions, n_chunks,
                   team_sides, winner, game_crashed, estimated_duration_secs, ret>>
    /\ UNCHANGED <<stream_vars, caller_vars>>

\* what player_builds can be: the position of each positioned slot, with the faction
\* detect_faction_from_buildings finds in its building ids
PlayerBuildsChoices(pr) ==
    LET slots == DOMAIN pr.player_positions
        Factions(s) == IF s \in DOMAIN pr.player_building_ids
                       THEN FactionChoices(pr.player_building_ids[s])
                       ELSE {None}
    IN {[s \in slots |-> [position |-> pr.player_positions[s], inferred_faction |-> f[s]]] :
            f \in {g \in [slots -> UNION {Factions(s) : s \in slots}] :
                      \A s \in slots : g[s] \in Factions(s)}}

\* variant of the crash check with the test on has_endgame inverted
crash_check_inverted(w, combat) ==
    w = "Unknown" /\ combat.has_endgame /\ combat.defeated_players = {}

\* the crash check of parse_replay: the winner is still unknown, no end-game event was
\* seen and nobody was defeated
crash_check(w, combat) ==
    w = "Unknown" /\ ~combat.has_endgame /\ combat.defeated_players = {}

\* the players with the positions and the inferred factions of player_builds
WithPositions(ps, builds) ==
    [i \in 1..Len(ps) |->
        IF ps[i].slot \in DOMAIN builds
        THEN [ps[i] EXCEPT !.map_position = Some(builds[ps[i].slot].position),
                           !.actual_faction =
                               IF IsSome(builds[ps[i].slot].inferred_faction)
                               THEN builds[ps[i].slot].inferred_faction ELSE @]
        ELSE ps[i]]

\* the raw scan ends and parse_and_analyze_chunks returns with player_builds built;
\* parse_replay gives the players their positions and factions, determines the sides
\* and the winner, checks for a crash, estimates the duration, remaps the teams and
\* returns Ok(ReplayInfo)
EndRawScan ==
    /\ pc = "raw_scan"
    /\ \E builds \in PlayerBuildsChoices(parse_result) :
          LET positioned == WithPositions(players, builds)
              sides == determine_team_sides(positioned)
          IN /\ parse_result' = [parse_result EXCEPT !.player_builds = builds]
             /\ team_sides' = sides
             /\ players' = remap_teams_by_side(positioned, sides)
             /\ \E slot_to_pn \in SlotToPnChoices(pn_to_slot) :
                \E order \in Orders(DOMAIN TeamPlayers(header_players, slot_to_pn)) :
                   LET w == determine_winner(parse_result, header_players, sides,
                                             pn_to_slot, slot_to_pn, order)
                       crashed == crash_check(w, parse_result)
                   IN /\ winner' = IF crashed THEN "NotConcluded" ELSE w
                      /\ game_crashed' = crashed
    /\ estimated_duration_secs' =
          IF parse_result.max_timecode > 0
          THEN Some(parse_result.max_timecode \div SAGE_TICKS_PER_SECOND) ELSE None
    /\ calls' = calls \cup {"raw_scan_for_critical_events", "determine_team_sides",
                            "determine_winner"}
    /\ Return([kind |-> "Ok", map_name |-> hdr.map_name])
    /\ UNCHANGED <<data, hdr, header_players, pn_to_slot,
                   build_positions, unit_positions, n_chunks, n_raw>>
    /\ UNCHANGED <<stream_vars, caller_vars>>

\* Ok(ReplayInfo) for a buffer without a chunk stream: the fields of the ReplayInfo
\* are map_name, players, spectators, winner, game_crashed and estimated_duration_secs
Finish ==
    /\ pc = "finish"
    /\ Return([kind |-> "Ok", map_name |-> hdr.map_name])
    /\ UNCHANGED <<data, calls, hdr, header_players, pn_to_slot, players,
                   build_positions, unit_positions, parse_result, n_chunks, n_raw,
                   team_sides, winner, game_crashed, estimated_duration_secs>>
    /\ UNCHANGED <<stream_vars, caller_vars>>

Next ==
    \/ CheckMagic
    \/ ParseHeader
    \/ MapFilter
    \/ CheckPlayers
    \/ AssignColors
    \/ BuildPlayers
    \/ DecodeChunk
    \/ EndChunks
    \/ RawMatch
    \/ EndRawScan
    \/ Finish

Spec == Init /\ [][Next]_vars

InitStream == InitWith(StreamInputs)

SpecStream == InitStream /\ [][Next]_vars

\* parse_replay on the buffers of WinnerInputs
InitWinner == InitWith(WinnerInputs)

SpecWinner == InitWinner /\ [][Next]_vars

\* parse_replay on buffers without a chunk stream
InitColors == InitWith(ColorInputs)

NextColors ==
    \/ CheckMagic
    \/ ParseHeader
    \/ MapFilter
    \/ CheckPlayers
    \/ AssignColors
    \/ BuildPlayers
    \/ Finish

SpecColors == InitColors /\ [][NextColors]_vars

----------------------------------------------------------------------------
(* parse_replay on a stream that is given byte by byte *)

\* usize::saturating_sub
saturating_sub(a, b) == IF a >= b THEN a - b ELSE 0

\* the condition of the decode loop of parse_and_analyze_chunks
DecodeLoopRuns ==
    Get(hdr.chunks_start) + pos < saturating_sub(DataLen(data), CHUNK_HEADER_LEN)

\* variant of the step after a failed parse that stays at the offset
StayAfterFailure(p) == p

\* the step of the decode loop after a failed parse: pos += 1
SkipAfterFailure(p) == p + 1

\* one iteration of the decode loop of parse_and_analyze_chunks: parse_chunk at pos;
\* a chunk is accounted for and pos moves behind it, a failure moves pos by one byte
DecodeStep ==
    /\ pc = "chunks"
    /\ DecodeLoopRuns
    /\ LET parsed == parse_chunk(data, pos)
       IN IF IsSome(parsed)
          THEN LET chunk == Get(parsed).chunk
               IN /\ parse_result' = ResultAfterChunk(parse_result, header_players,
                                                      pn_to_slot, chunk)
                  /\ build_positions' = BuildPositionsAfter(build_positions,
                                             header_players, pn_to_slot, chunk)
                  /\ unit_positions' = UnitPositionsAfter(unit_positions,
                                            header_players, pn_to_slot, chunk)
                  /\ pos' = Get(parsed).next_pos
                  /\ decoded' = Append(decoded, chunk)
                  /\ n_chunks' = n_chunks + 1
          ELSE /\ pos' = SkipAfterFailure(pos)
               /\ UNCHANGED <<parse_result, build_positions, unit_positions, decoded,
                              n_chunks>>
    /\ calls' = calls \cup {"parse_and_analyze_chunks"}
    /\ UNCHANGED <<data, pc, hdr, header_players, pn_to_slot, players, n_raw,
                   team_sides, winner, game_crashed, estimated_duration_secs, ret,
                   scan_i, scanned, caller_vars>>

\* the decode loop is left when its condition fails
EndDecode ==
    /\ pc = "chunks"
    /\ ~DecodeLoopRuns
    /\ EndChunks

\* raw_scan_for_critical_events scans: the buffer holds 8 bytes of stream or more, and
\* i is before data.len() - 3
ScanLoopRuns ==
    /\ DataLen(data) >= Get(hdr.chunks_start) + RAW_MIN_SPAN
    /\ Get(hdr.chunks_start) + scan_i < DataLen(data) - RAW_TAIL

\* one iteration of the loop of raw_scan_for_critical_events
ScanStep ==
    /\ pc = "raw_scan"
    /\ ScanLoopRuns
    /\ LET cmd == PatternAt(data, scan_i)
           valid_pns == valid_player_nums(header_players, pn_to_slot)
       IN IF IsSome(cmd)
          THEN LET m == MatchAt(data, scan_i, Get(cmd))
               IN /\ parse_result' = ResultAfterMatch(parse_result, valid_pns, m)
                  /\ scanned' = IF RawRecords(valid_pns, m)
                                THEN Append(scanned, m) ELSE scanned
                  /\ n_raw' = n_raw + 1
          ELSE UNCHANGED <<parse_result, scanned, n_raw>>
    /\ scan_i' = scan_i + 1
    /\ calls' = calls \cup {"raw_scan_for_critical_events"}
    /\ UNCHANGED <<data, pc, hdr, header_players, pn_to_slot, players,
                   build_positions, unit_positions, n_chunks,
                   team_sides, winner, game_crashed, estimated_duration_secs, ret,
                   pos, decoded, caller_vars>>

\* the raw scan returns and parse_replay goes on to its end
EndScan ==
    /\ pc = "raw_scan"
    /\ ~ScanLoopRuns
    /\ EndRawScan

\* the ReplayInfo parse_replay returns, as far as the duration reads it
ReturnedTimes ==
    [start_time |-> Some(data.start_time), end_time |-> Some(data.end_time),
     estimated_duration_secs |-> estimated_duration_secs]

\* ReplayInfo::duration_formatted reads the duration of a returned ReplayInfo
DurationFormatted ==
    /\ pc = "done"
    /\ ret.kind = "Ok"
    /\ duration = None
    /\ duration' = Some([seconds |-> duration_seconds(ReturnedTimes),
                         estimated |-> is_duration_estimated(ReturnedTimes)])
    /\ UNCHANGED <<data, pc, calls, hdr, header_players, pn_to_slot, players,
                   build_positions, unit_positions, parse_result, n_chunks, n_raw,
                   team_sides, winner, game_crashed, estimated_duration_secs, ret,
                   stream_vars, parts, content, paging_vars>>

InitDecode == InitWith(DecodeInputs)

NextDecode ==
    \/ CheckMagic
    \/ ParseHeader
    \/ MapFilter
    \/ CheckPlayers
    \/ AssignColors
    \/ BuildPlayers
    \/ DecodeStep
    \/ EndDecode
    \/ ScanStep
    \/ EndScan
    \/ Finish
    \/ DurationFormatted

SpecDecode == InitDecode /\ [][NextDecode]_vars

\* the two loops run without waiting for anything: once a step of a loop, or the step
\* that leaves it, is possible, it is taken
\* the buffers of CutInputs whose chunks hold a few arguments
LiveInputs ==
    {d \in CutInputs : \A k \in 1..Len(d.stream) : Len(d.stream[k].raw) <= MaxLiveArgs}

InitDecodeLive == InitWith(LiveInputs)

SpecDecodeLive ==
    /\ InitDecodeLive /\ [][NextDecode]_vars
    /\ WF_vars(DecodeStep) /\ WF_vars(EndDecode)
    /\ WF_vars(ScanStep) /\ WF_vars(EndScan)

----------------------------------------------------------------------------
(* The callers of build_safe_content *)

\* the parts of a message: an empty part, short parts, a part of 100 characters, a part
\* that nearly fills the limit, a part above the limit
Parts ==
    {<<>>, <<"a">>, <<"b", "c">>, Repeat("x", 100),
     Repeat("y", CONTENT_SAFE_LIMIT - 10), Repeat("z", CONTENT_SAFE_LIMIT + 100)}

\* the lists of parts: all short lists, and a list that leaves out ten parts
PartLists ==
    SeqUpTo(Parts, MaxParts)
    \cup {<<<<"a">>, Repeat("z", CONTENT_SAFE_LIMIT + 100)>> \o [i \in 1..9 |-> <<"a">>]}

\* send_batch_message and the pagination follow-up have collected the parts
InitContent ==
    /\ parts \in PartLists
    /\ content = None
    /\ pc = "content"
    /\ data = [DecodeInput(DecodeRoster, <<1000, 1817>>, <<>>, 0) EXCEPT !.has_nul = FALSE]
    /\ calls = {}
    /\ hdr = NoHeader
    /\ header_players = <<>>
    /\ pn_to_slot = <<>>
    /\ players = <<>>
    /\ build_positions = <<>>
    /\ unit_positions = <<>>
    /\ parse_result = EmptyParseResult
    /\ n_chunks = 0
    /\ n_raw = 0
    /\ team_sides = <<>>
    /\ winner = "Unknown"
    /\ game_crashed = FALSE
    /\ estimated_duration_secs = None
    /\ ret = NoReturn
    /\ pos = 0
    /\ scan_i = 0
    /\ decoded = <<>>
    /\ scanned = <<>>
    /\ duration = None
    /\ NoPaging

\* the caller builds the content of the message from the parts
BuildSafeContent ==
    /\ pc = "content"
    /\ content' = Some(build_safe_content(parts))
    /\ pc' = "content_built"
    /\ UNCHANGED <<data, calls, hdr, header_players, pn_to_slot, players,
                   build_positions, unit_positions, parse_result, n_chunks, n_raw,
                   team_sides, winner, game_crashed, estimated_duration_secs, ret,
                   stream_vars, duration, parts, paging_vars>>

NextContent == BuildSafeContent

SpecContent == InitContent /\ [][NextContent]_vars

\* Pagination of archives: bot/handler.rs, bot/pagination.rs, bot/setup.rs

BATCH_SIZE == 10
MAX_PENDING_ENTRIES == 50
PENDING_EXPIRY_SECS == 900

\* the number of Show-more clicks handled, and of advances of the clock
MaxClicks == 2
MaxTicks == 1

\* the handlers: one per archive uploaded, one per click
Uploads == {"upload"} \X (1..2)
Clicks == {"click"} \X (1..MaxClicks)

\* the channel the archives are uploaded in
HomeChannel == "home"

\* format!("{}_{}_{}", msg.channel_id, msg.id, att_idx), the parts kept apart
KeyOf(u) == <<HomeChannel, u[2], 0>>

\* replays.len().min(BATCH_SIZE)
batch_count(replays) == IF Len(replays) <= BATCH_SIZE THEN Len(replays) ELSE BATCH_SIZE

\* Vec::into_iter().skip(n).collect()
Skip(s, n) == SubSeq(s, n + 1, Len(s))

\* a lookup that leaves the entry in the map
MapKeep(m, k) == m

\* HashMap::remove
MapRemove(m, k) == [x \in DOMAIN m \ {k} |-> m[x]]

\* cleanup_expired_pending_inner: retain the entries younger than the expiry
cleanup_expired_pending_inner(map, t) ==
    [k \in {x \in DOMAIN map : t - map[x].created_at < PENDING_EXPIRY_SECS} |-> map[k]]

\* the guarded insert both handlers make under the lock, after the cleanup:
\* the map after it, and the pending_key the handler keeps
StorePending(map, key, entry, t) ==
    LET m == cleanup_expired_pending_inner(map, t)
    IN IF Cardinality(DOMAIN m) >= MAX_PENDING_ENTRIES
       THEN [map |-> m, pending_key |-> None]
       ELSE [map |-> MapInsert(m, key, entry), pending_key |-> Some(key)]

\* the counter of a follow-up that counts a full batch whatever was rendered
NewShownFullBatch(shown, count) == shown + BATCH_SIZE

\* new_shown = pending.shown + batch_count
NewShown(shown, count) == shown + count

\* two archives are about to be handled, the first of 5, 11 or 25 replays, the
\* second of 11; no click yet; the map is empty or holds, one short of the
\* capacity, what earlier uploads of eleven replays left in it
InitPaging ==
    /\ \E f \in {0, MAX_PENDING_ENTRIES - 1} :
          pending = [k \in {<<HomeChannel, 100 + i, 0>> : i \in 1..f} |->
                        [replays |-> <<BATCH_SIZE + 1>>, total |-> BATCH_SIZE + 1,
                         shown |-> BATCH_SIZE, created_at |-> 0,
                         channel_id |-> HomeChannel]]
    /\ \E n \in {5, BATCH_SIZE + 1, 2 * BATCH_SIZE + 5} :
          LET idle == [pc |-> "idle", key |-> <<>>, channel |-> HomeChannel,
                       replays |-> <<>>, found |-> "none", remaining |-> <<>>,
                       total |-> 0, shown |-> 0, pending_key |-> None]
              size(u) == IF u[2] = 1 THEN n ELSE BATCH_SIZE + 1
          IN tasks = [t \in Uploads \cup Clicks |->
                         IF t \in Clicks THEN idle
                         ELSE [idle EXCEPT !.pc = "batch", !.key = KeyOf(t),
                                           !.replays = [i \in 1..size(t) |-> i],
                                           !.total = size(t)]]
    /\ now = 0
    /\ rendered = {}
    /\ sent = {}
    /\ parts = <<>>
    /\ content = None
    /\ pc = "paging"
    /\ data = [DecodeInput(DecodeRoster, <<1000, 1817>>, <<>>, 0) EXCEPT !.has_nul = FALSE]
    /\ calls = {}
    /\ hdr = NoHeader
    /\ header_players = <<>>
    /\ pn_to_slot = <<>>
    /\ players = <<>>
    /\ build_positions = <<>>
    /\ unit_positions = <<>>
    /\ parse_result = EmptyParseResult
    /\ n_chunks = 0
    /\ n_raw = 0
    /\ team_sides = <<>>
    /\ winner = "Unknown"
    /\ game_crashed = FALSE
    /\ estimated_duration_secs = None
    /\ ret = NoReturn
    /\ pos = 0
    /\ scan_i = 0
    /\ decoded = <<>>
    /\ scanned = <<>>
    /\ duration = None

\* what the pagination leaves alone
ParserUnchanged ==
    UNCHANGED <<data, pc, calls, hdr, header_players, pn_to_slot, players,
                build_positions, unit_positions, parse_result, n_chunks, n_raw,
                team_sides, winner, game_crashed, estimated_duration_secs, ret,
                stream_vars, duration, parts, content>>

\* process_replay_batch renders the first BATCH_SIZE replays of the list
RenderBatch(t, key, replays) ==
    rendered' = rendered \cup
        {[task |-> t, key |-> key,
          ids |-> {replays[i] : i \in 1..batch_count(replays)}]}

\* process_archive_replays, to the end of process_replay_batch: the first batch
\* is rendered, the rest is split off
UploadBatch(u) ==
    /\ tasks[u].pc = "batch"
    /\ LET replays == tasks[u].replays
           count == batch_count(replays)
           remaining == IF Len(replays) > count THEN Skip(replays, count) ELSE <<>>
       IN /\ RenderBatch(u, tasks[u].key, replays)
          /\ tasks' = [tasks EXCEPT ![u].pc = "store", ![u].remaining = remaining,
                                    ![u].shown = count]
    /\ UNCHANGED <<pending, now, sent>>
    /\ ParserUnchanged

\* process_archive_replays, the section under the lock: the rest is stored
\* unless the map is full
UploadStore(u) ==
    /\ tasks[u].pc = "store"
    /\ LET me == tasks[u]
           entry == [replays |-> me.remaining, total |-> me.total, shown |-> me.shown,
                     created_at |-> now, channel_id |-> me.channel]
           st == StorePending(pending, me.key, entry, now)
       IN IF me.remaining # <<>>
          THEN /\ pending' = st.map
               /\ tasks' = [tasks EXCEPT ![u].pc = "send",
                                         ![u].pending_key = st.pending_key]
          ELSE /\ pending' = pending
               /\ tasks' = [tasks EXCEPT ![u].pc = "send"]
    /\ UNCHANGED <<now, rendered, sent>>
    /\ ParserUnchanged

\* process_archive_replays, send_batch_message: the count line and the button
UploadSend(u) ==
    /\ tasks[u].pc = "send"
    /\ LET me == tasks[u]
           shown == IF me.total > me.shown THEN me.shown ELSE me.total
       IN sent' = sent \cup
              {[task |-> u, key |-> me.key, shown |-> shown, total |-> me.total,
                left |-> Len(me.remaining), button |-> IsSome(me.pending_key),
                line |-> me.total > BATCH_SIZE]}
    /\ tasks' = [tasks EXCEPT ![u].pc = "done"]
    /\ UNCHANGED <<pending, now, rendered>>
    /\ ParserUnchanged

\* a user presses a Show-more button; the interaction carries the key of the
\* button and the channel it is pressed in
Click(c) ==
    /\ tasks[c].pc = "idle"
    /\ \A o \in Clicks : o[2] < c[2] => tasks[o].pc # "idle"
    /\ \E key \in {m.key : m \in {x \in sent : x.button}}, ch \in {HomeChannel, "other"} :
          tasks' = [tasks EXCEPT ![c].pc = "lookup", ![c].key = key, ![c].channel = ch]
    /\ UNCHANGED <<pending, now, rendered, sent>>
    /\ ParserUnchanged

\* handle_component_interaction, the section under the lock: cleanup, then the
\* entry is taken out of the map unless it is of another channel
ClickLookup(c) ==
    /\ tasks[c].pc = "lookup"
    /\ LET me == tasks[c]
           map == cleanup_expired_pending_inner(pending, now)
       IN IF me.key \in DOMAIN map
          THEN IF map[me.key].channel_id # me.channel
               THEN /\ pending' = map
                    /\ tasks' = [tasks EXCEPT ![c].pc = "mismatch",
                                              ![c].found = "ChannelMismatch"]
               ELSE /\ pending' = MapRemove(map, me.key)
                    /\ tasks' = [tasks EXCEPT ![c].pc = "ack",
                                              ![c].found = "Found",
                                              ![c].replays = map[me.key].replays,
                                              ![c].total = map[me.key].total,
                                              ![c].shown = map[me.key].shown,
                                              ![c].channel = map[me.key].channel_id]
          ELSE /\ pending' = map
               /\ tasks' = [tasks EXCEPT ![c].pc = "ack", ![c].found = "NotFound"]
    /\ UNCHANGED <<now, rendered, sent>>
    /\ ParserUnchanged

\* handle_component_interaction, the ephemeral answer to a click from another
\* channel
ClickMismatch(c) ==
    /\ tasks[c].pc = "mismatch"
    /\ tasks' = [tasks EXCEPT ![c].pc = "done"]
    /\ UNCHANGED <<pending, now, rendered, sent>>
    /\ ParserUnchanged

\* handle_component_interaction, the acknowledgement: when it fails the handler
\* returns, and when nothing was found the expiry notice ends it
ClickAck(c) ==
    /\ tasks[c].pc = "ack"
    /\ \E ok \in BOOLEAN :
          tasks' = [tasks EXCEPT ![c].pc =
                       IF ok /\ tasks[c].found = "Found" THEN "batch" ELSE "done"]
    /\ UNCHANGED <<pending, now, rendered, sent>>
    /\ ParserUnchanged

\* handle_component_interaction, process_replay_batch on the entry taken: the
\* next batch is rendered, the rest is split off
ClickBatch(c) ==
    /\ tasks[c].pc = "batch"
    /\ LET replays == tasks[c].replays
           count == batch_count(replays)
       IN /\ RenderBatch(c, tasks[c].key, replays)
          /\ tasks' = [tasks EXCEPT ![c].pc = "store",
                                    ![c].remaining = Skip(replays, count),
                                    ![c].shown = NewShown(tasks[c].shown, count)]
    /\ UNCHANGED <<pending, now, sent>>
    /\ ParserUnchanged

\* handle_component_interaction, the second section under the lock: the rest
\* is stored under the same key unless the map is full
ClickStore(c) ==
    /\ tasks[c].pc = "store"
    /\ LET me == tasks[c]
           entry == [replays |-> me.remaining, total |-> me.total, shown |-> me.shown,
                     created_at |-> now, channel_id |-> me.channel]
           st == StorePending(pending, me.key, entry, now)
       IN IF me.remaining # <<>>
          THEN /\ pending' = st.map
               /\ tasks' = [tasks EXCEPT ![c].pc = "followup",
                                         ![c].pending_key = st.pending_key]
          ELSE /\ pending' = pending
               /\ tasks' = [tasks EXCEPT ![c].pc = "followup"]
    /\ UNCHANGED <<now, rendered, sent>>
    /\ ParserUnchanged

\* handle_component_interaction, the follow-up: "Showing N of T replays" and
\* the button when the rest was stored
ClickFollowup(c) ==
    /\ tasks[c].pc = "followup"
    /\ LET me == tasks[c]
       IN sent' = sent \cup
              {[task |-> c, key |-> me.key, shown |-> me.shown, total |-> me.total,
                left |-> Len(me.remaining), button |-> IsSome(me.pending_key),
                line |-> TRUE]}
    /\ tasks' = [tasks EXCEPT ![c].pc = "done"]
    /\ UNCHANGED <<pending, now, rendered>>
    /\ ParserUnchanged

\* time passes: the age of every entry grows by the expiry
Tick ==
    /\ now < MaxTicks * PENDING_EXPIRY_SECS
    /\ now' = now + PENDING_EXPIRY_SECS
    /\ UNCHANGED <<pending, tasks, rendered, sent>>
    /\ ParserUnchanged

NextPaging ==
    \/ \E u \in Uploads : UploadBatch(u)
    \/ \E u \in Uploads : UploadStore(u)
    \/ \E u \in Uploads : UploadSend(u)
    \/ \E c \in Clicks : Click(c)
    \/ \E c \in Clicks : ClickLookup(c)
    \/ \E c \in Clicks : ClickMismatch(c)
    \/ \E c \in Clicks : ClickAck(c)
    \/ \E c \in Clicks : ClickBatch(c)
    \/ \E c \in Clicks : ClickStore(c)
    \/ \E c \in Clicks : ClickFollowup(c)
    \/ Tick

SpecPaging == InitPaging /\ [][NextPaging]_vars

----------------------------------------------------------------------------
(* Properties of parse_replay, stated on the input buffer and the returned value *)

\* the buffer is long enough and starts with the signature
ValidSignature(d) == DataLen(d) >= MAGIC_LEN + MIN_AFTER_MAGIC /\ d.sig = MAGIC

\* the buffer has an M= field whose path is non-empty text
MapExtractable(d) == d.map.present /\ d.map.path /= <<>> /\ d.map.utf8

\* the map name of the buffer, and whether it contains "wor rhun"
MapNameOf(d) == Get(extract_map_name_from_path(d.map.path))
SupportedMap(d) == MapExtractable(d) /\ ContainsWorRhun(MapNameOf(d))

\* indices of the roster items that parse with a non-negative team value
PlayerEntries(d) ==
    IF d.has_s
    THEN {i \in 1..Len(d.roster) :
             /\ IsSome(ParsedRoster(d)[i])
             /\ Get(ParsedRoster(d)[i]).team_raw >= 0}
    ELSE {}

ReturnedOk == pc = "done" /\ ret.kind = "Ok"

\* C1: for every buffer with a valid signature and a supported map name, parse_replay
\* returns Ok with one player per roster entry of non-negative team value when there is
\* such an entry, and NoPlayers when there is none.
C1_OkIffPlayerEntry ==
    (pc = "done" /\ ValidSignature(data) /\ SupportedMap(data)) =>
        IF PlayerEntries(data) /= {}
        THEN ret.kind = "Ok" /\ Len(players) = Cardinality(PlayerEntries(data))
        ELSE ret.kind = "NoPlayers"

\* C3: in every ReplayInfo returned, the slots of the players are strictly increasing
\* along the player list (and each is a u8).
C3_SlotsStrictlyIncreasing ==
    ReturnedOk =>
        /\ \A i \in 1..Len(players) : players[i].slot \in 0..(U8_MOD - 1)
        /\ \A i \in 1..(Len(players) - 1) : players[i].slot < players[i + 1].slot

\* C6: a buffer shorter than the signature plus 16 bytes, or one that does not start
\* with the signature, is answered with InvalidHeader and nothing else, whatever the
\* rest of the buffer holds.
C6_CorruptMagicIsInvalidHeader ==
    (pc = "done" /\ ~ValidSignature(data)) => ret.kind = "InvalidHeader"

\* a buffer with a wrong signature whose map, roster and stream are all well-formed is
\* answered with InvalidHeader, and so is a short buffer with the right signature
C6_Witness ==
    /\ pc = "done" /\ ret.kind = "InvalidHeader"
    /\ \/ /\ data.sig /= MAGIC
          /\ SupportedMap(data) /\ PlayerEntries(data) /= {} /\ data.has_nul
       \/ /\ data.sig = MAGIC
          /\ DataLen(data) < MAGIC_LEN + MIN_AFTER_MAGIC
          /\ DataLen(data) >= MAGIC_LEN

\* C7 as stated: a buffer with a valid signature whose map name lacks "wor rhun" is
\* answered with UnsupportedMap carrying the name, and neither the roster nor the stream
\* has been parsed for it.
C7_UnsupportedMapParsesNothing ==
    (pc = "done" /\ ValidSignature(data) /\ MapExtractable(data) /\ ~SupportedMap(data)) =>
        /\ ret = [kind |-> "UnsupportedMap", map_name |-> MapNameOf(data)]
        /\ calls \cap {"find_players_and_spectators_in", "parse_and_analyze_chunks",
                       "raw_scan_for_critical_events"} = {}

\* C7 amended: such a buffer is answered with UnsupportedMap carrying the name, also when
\* its roster has no player; parse_header has parsed the roster and looked for the
\* stream before the filter, and nothing after the filter runs: no colour assignment,
\* no player building, no stream parsing, no winner determination.
C7_UnsupportedMapBeforeNoPlayers ==
    (pc = "done" /\ ValidSignature(data) /\ MapExtractable(data) /\ ~SupportedMap(data)) =>
        /\ ret = [kind |-> "UnsupportedMap", map_name |-> MapNameOf(data)]
        /\ {"find_players_and_spectators_in", "find_chunks_start"} \subseteq calls
        /\ calls \cap {"assign_player_colors", "build_players", "parse_and_analyze_chunks",
                       "raw_scan_for_critical_events", "determine_team_sides",
                       "determine_winner"} = {}
        /\ players = <<>> /\ n_chunks = 0 /\ n_raw = 0

\* an unsupported map on a buffer without any player and with a stream
C7_Witness ==
    /\ pc = "done" /\ ret.kind = "UnsupportedMap"
    /\ ValidSignature(data) /\ data.has_s /\ PlayerEntries(data) = {}
    /\ data.has_nul /\ data.stream_len > 0

\* C8 as stated: with a valid signature, a buffer whose M= field or whose ;S= marker is
\* missing (or is not text) is answered with ParseError.
C8_MissingMarkerIsParseError ==
    (pc = "done" /\ ValidSignature(data) /\ (~MapExtractable(data) \/ ~data.has_s)) =>
        ret.kind = "ParseError"

\* C8 amended: with a valid signature, ParseError is returned exactly when no map name
\* can be extracted; a buffer with a map name and without the ;S= marker is answered
\* with UnsupportedMap or, on a supported map, with NoPlayers.
C8_ParseErrorIffNoMapName ==
    (pc = "done" /\ ValidSignature(data)) =>
        /\ ret.kind = "ParseError" <=> ~MapExtractable(data)
        /\ (MapExtractable(data) /\ ~data.has_s) =>
              ret.kind = IF SupportedMap(data) THEN "NoPlayers" ELSE "UnsupportedMap"

\* a supported map without the ;S= marker
C8_Witness ==
    /\ pc = "done" /\ ValidSignature(data)
    /\ SupportedMap(data) /\ ~data.has_s
    /\ ret.kind = "NoPlayers"

\* the player_builds, the slot_to_pn and the result of the run that iterates every
\* hash set and hash map in ascending key order
AscendingBuilds(pr) ==
    [s \in DOMAIN pr.player_positions |->
        [position |-> pr.player_positions[s],
         inferred_faction |->
            IF s \in DOMAIN pr.player_building_ids
            THEN detect_faction_from_buildings(SortedSeq(pr.player_building_ids[s]))
            ELSE None]]

AscendingSlotToPn(p2s) ==
    [s \in {p2s[pn] : pn \in DOMAIN p2s} |->
        CHOOSE pn \in DOMAIN p2s :
            p2s[pn] = s /\ \A q \in DOMAIN p2s : p2s[q] = s => q <= pn]

AscendingResult ==
    LET positioned == WithPositions(build_players(header_players),
                                    AscendingBuilds(parse_result))
        sides == determine_team_sides(positioned)
        slot_to_pn == AscendingSlotToPn(pn_to_slot)
        w == determine_winner(parse_result, header_players, sides, pn_to_slot, slot_to_pn,
                              SortedSeq(DOMAIN TeamPlayers(header_players, slot_to_pn)))
    IN [players |-> remap_teams_by_side(positioned, sides),
        winner |-> IF crash_check(w, parse_result) THEN "NotConcluded" ELSE w,
        game_crashed |-> crash_check(w, parse_result)]

\* C2: decoding the same buffer twice yields the same ReplayInfo: the players (team,
\* colour, map_position, actual_faction), the winner and game_crashed returned for a
\* buffer do not depend on the iteration order of the team grouping or of the
\* building-id set, that is, every run returns what the run that iterates in ascending
\* key order returns.
C2_SameBufferSameResult ==
    (ReturnedOk /\ IsSome(hdr.chunks_start)) =>
        /\ players = AscendingResult.players
        /\ winner = AscendingResult.winner
        /\ game_crashed = AscendingResult.game_crashed

\* C4 as stated: in every ReplayInfo returned with fewer than 10 players, no two
\* players have the same colour id.
C4_ColorsUnique ==
    (ReturnedOk /\ Len(players) < PALETTE_SIZE) =>
        \A i, j \in 1..Len(players) : i /= j => players[i].color_id /= players[j].color_id

\* C4 amended: in every ReplayInfo returned with fewer than 10 players, two players
\* have the same colour id only when both carried that id explicitly in the header; a
\* player whose header colour id was -1 shares its id with nobody.
C4_OnlyExplicitColorsRepeat ==
    (ReturnedOk /\ Len(players) < PALETTE_SIZE) =>
        \A i, j \in 1..Len(players) :
            (i /= j /\ players[i].color_id = players[j].color_id) =>
                /\ hdr.players[i].color_id /= -1
                /\ hdr.players[j].color_id /= -1
                /\ players[i].color_id = hdr.players[i].color_id
                /\ players[j].color_id = hdr.players[j].color_id

\* nine players, two of them with the same explicit colour id and seven with -1
C4_Witness ==
    /\ ReturnedOk /\ Len(players) = PALETTE_SIZE - 1
    /\ \E i, j \in 1..Len(players) : i /= j /\ players[i].color_id = players[j].color_id
    /\ Cardinality({i \in 1..Len(players) : hdr.players[i].color_id = -1}) = 7

\* C5 as stated: after colour assignment every player whose header colour id was -1
\* holds an id of 0..9 that no other player holds, whatever the size of the roster.
C5_EveryRandomColorResolved ==
    ("assign_player_colors" \in calls) =>
        \A i \in 1..Len(header_players) :
            hdr.players[i].color_id = -1 =>
                /\ header_players[i].color_id \in 0..(PALETTE_SIZE - 1)
                /\ \A j \in 1..Len(header_players) :
                      j /= i => header_players[j].color_id /= header_players[i].color_id

\* C5 amended: after colour assignment a player whose header colour id was -1 either
\* holds an id of 0..9 that no other player holds (explicit or assigned), or retains
\* -1, and then every id of 0..9 is held by another player of the roster; no player of
\* a roster of at most 10 players retains -1.  The ReplayInfo carries the ids
\* unchanged, a retained -1 with the gray fallback.
C5_RandomColorResolvedWhileIdsLast ==
    /\ ("assign_player_colors" \in calls) =>
          /\ \A i \in 1..Len(header_players) :
                hdr.players[i].color_id = -1 =>
                   LET c == header_players[i].color_id
                       others == {header_players[j].color_id :
                                     j \in 1..Len(header_players) \ {i}}
                   IN \/ c \in 0..(PALETTE_SIZE - 1) /\ c \notin others
                      \/ c = -1 /\ 0..(PALETTE_SIZE - 1) \subseteq others
          /\ Len(header_players) <= PALETTE_SIZE =>
                \A i \in 1..Len(header_players) : header_players[i].color_id /= -1
    /\ ReturnedOk =>
          \A i \in 1..Len(players) :
             /\ players[i].color_id = header_players[i].color_id
             /\ players[i].color_id = -1 => players[i].color_rgb = GRAY

\* eleven players with header colour id -1: ten hold the ids 0..9, the last retains -1
C5_Witness ==
    /\ ReturnedOk /\ Len(players) = PALETTE_SIZE + 1
    /\ \A i \in 1..Len(players) : hdr.players[i].color_id = -1
    /\ {players[i].color_id : i \in 1..PALETTE_SIZE} = 0..(PALETTE_SIZE - 1)
    /\ players[PALETTE_SIZE + 1].color_id = -1

\* C9: for a buffer with a valid header, at least one player and a stream start, when
\* neither the decode loop nor the raw scan has accepted an end-game or a
\* player-defeated event, the ReplayInfo returned has winner NotConcluded and
\* game_crashed true.
C9_NoEventsIsCrash ==
    (/\ ReturnedOk
     /\ IsSome(find_chunks_start(data))
     /\ ~parse_result.has_endgame
     /\ parse_result.defeated_players = {}) =>
        winner = "NotConcluded" /\ game_crashed

\* a stream whose chunks and pattern matches were all looked at and gave no event:
\* MaxChunks chunks decoded (with a position for a team), MaxRaw pattern matches rejected
C9_Witness ==
    /\ ReturnedOk /\ IsSome(find_chunks_start(data))
    /\ n_chunks = MaxChunks /\ n_raw = MaxRaw
    /\ team_sides /= <<>>
    /\ ~parse_result.has_endgame /\ parse_result.defeated_players = {}
    /\ winner = "NotConcluded" /\ game_crashed

\* the roster entry of player number pn: the engine numbers the occupied entries 3, 4, ...
Issuer(d, pn) == OccupiedEntries(d)[pn - FIRST_PLAYER_NUM + 1]

\* C10: when an end-game event is recorded and the team of the player who issued the
\* recorded event has a resolved side, the winner is the certain win of that side,
\* whatever the defeated-set holds.
C10_EndGameCertain ==
    (ReturnedOk /\ IsSome(parse_result.endgame_player)) =>
        LET team == Issuer(data, Get(parse_result.endgame_player)).team_raw
        IN team \in DOMAIN team_sides => winner = side_to_winner(team_sides[team])

----------------------------------------------------------------------------
(* Player numbering *)

\* indices of the roster items whose slot string gives an entry (player or spectator)
EntryItems(d) == {i \in 1..Len(d.roster) : IsSome(ParsedRoster(d)[i])}

\* C11: the k-th occupied slot (k from 0, ascending slot order, players and spectators
\* alike) has player number 3 + k, so player numbers ascend with the slots and the
\* mapping player number -> slot is injective; the strings "X", "O", ";" and "" give no
\* entry and take no player number.
C11_PlayerNumbersFollowSlots ==
    pc = "assign_colors" =>
        /\ DOMAIN pn_to_slot =
              FIRST_PLAYER_NUM..(FIRST_PLAYER_NUM + Cardinality(EntryItems(data)) - 1)
        /\ \A a, b \in DOMAIN pn_to_slot : a < b => pn_to_slot[a] < pn_to_slot[b]
        /\ \A i \in 1..Len(data.roster) :
              (Len(data.roster[i].str) = 1 /\ data.roster[i].str[1] \in {"", "X", "O", ";"})
                  => i \notin EntryItems(data)

----------------------------------------------------------------------------
(* Duration *)

\* the highest time code of the chunks the decode loop was given, 0 when there is none
MaxDecodedTimecode ==
    IF decoded = <<>> THEN 0
    ELSE CHOOSE m \in {decoded[i].time_code : i \in 1..Len(decoded)} :
            \A i \in 1..Len(decoded) : decoded[i].time_code <= m

\* C12: the duration read from a returned ReplayInfo is end - start, not estimated,
\* when the end timestamp is behind the start timestamp, whether or not there is an
\* estimate; otherwise it is the estimate, and it is marked as estimated exactly when
\* there is an estimate.  The estimate is floor(M / 5) for the highest time code M of
\* all decoded chunks, and there is none when M is 0 or no stream was decoded.
C12_DurationExactOrEstimated ==
    IsSome(duration) =>
        LET estimate == IF MaxDecodedTimecode > 0
                        THEN Some(MaxDecodedTimecode \div SAGE_TICKS_PER_SECOND)
                        ELSE None
        IN /\ estimated_duration_secs = estimate
           /\ Get(duration) =
                 IF data.end_time > data.start_time
                 THEN [seconds |-> Some(data.end_time - data.start_time),
                       estimated |-> FALSE]
                 ELSE [seconds |-> estimate, estimated |-> IsSome(estimate)]

\* a ReplayInfo with end behind start and an estimate taken from a chunk of a player
\* number that is not mapped: the duration read is end - start
C12_Witness ==
    /\ IsSome(duration)
    /\ data.end_time > data.start_time
    /\ estimated_duration_secs = Some(30 \div SAGE_TICKS_PER_SECOND)
    /\ \E i \in 1..Len(decoded) : decoded[i].player_num \notin DOMAIN pn_to_slot
    /\ Get(duration).seconds = Some(data.end_time - data.start_time)
    /\ ~Get(duration).estimated

----------------------------------------------------------------------------
(* Message content *)

\* the first k parts joined by newlines
RECURSIVE Joined(_, _)
Joined(prts, k) ==
    IF k = 0 THEN <<>>
    ELSE IF k = 1 THEN prts[1]
    ELSE Append(Joined(prts, k - 1), "\n") \o prts[k]

\* the number of parts that are included: the longest run of first parts whose join
\* has at most CONTENT_SAFE_LIMIT characters
IncludedParts(prts) ==
    CHOOSE k \in 0..Len(prts) :
        /\ Len(Joined(prts, k)) <= CONTENT_SAFE_LIMIT
        /\ k < Len(prts) => Len(Joined(prts, k + 1)) > CONTENT_SAFE_LIMIT

IsPrefix(s, r) == Len(s) <= Len(r) /\ SubSeq(r, 1, Len(s)) = s

----------------------------------------------------------------------------
(* The two passes over the stream *)

\* the bytes from chunks_start to the end of the buffer
SpanLen == data.stream_len

\* C14: the decode loop and the raw scanner terminate.  At every iteration of the
\* decode loop the offset grows: by one byte after a failed parse, by 13 bytes or more
\* after a chunk; the scanner moves on by one byte at every iteration; neither offset
\* passes the end of the span, so the iterations are at most as many as its bytes.
C14_BothPassesTerminate ==
    /\ [][(pc = "chunks" /\ pc' = "chunks") =>
            /\ pos' > pos
            /\ decoded' = decoded => pos' = pos + 1
            /\ decoded' /= decoded => pos' >= pos + CHUNK_HEADER_LEN]_vars
    /\ [][(pc = "raw_scan" /\ pc' = "raw_scan") => scan_i' = scan_i + 1]_vars
    /\ [](pos <= SpanLen /\ scan_i <= SpanLen)
    /\ (pc = "chunks") ~> (pc = "done")

\* parse_replay has returned after a decode loop that skipped bytes and decoded a
\* chunk with arguments, and a scan up to the last four bytes
C14_Witness ==
    /\ pc = "done"
    /\ \E i \in 1..Len(decoded) : decoded[i].args /= <<>>
    /\ pos > SumSeq([i \in 1..Len(decoded) |->
                       CHUNK_HEADER_LEN + DESCRIPTOR_LEN * Len(decoded[i].args)])
    /\ scan_i = SpanLen - RAW_TAIL

\* the chunk image at offset p of the span passes every test of the claim: the header
\* fits, the time code, the player number and the number of argument types are sane,
\* every argument count is at most 50, and the descriptors and arguments end inside
\* the buffer
Acceptable(d, p) ==
    /\ p + CHUNK_HEADER_LEN <= d.stream_len
    /\ HeaderAt(d, p).time_code <= MAX_SANE_TIMECODE
    /\ HeaderAt(d, p).player_num <= MAX_SANE_PLAYER_NUM
    /\ HeaderAt(d, p).n_arg_types <= MAX_SANE_ARG_TYPES
    /\ LET im == d.stream[ItemAt(d.stream, p)]
       IN /\ \A j \in 1..Len(im.sig) : im.sig[j].count <= MAX_SANE_ARG_COUNT
          /\ p + CHUNK_HEADER_LEN
                + SumSeq([j \in 1..Len(im.sig) |->
                            DESCRIPTOR_LEN + get_arg_size(im.sig[j].type) * im.sig[j].count])
                <= d.stream_len

\* C15: parse_chunk accepts a chunk at an offset if and only if the 13-byte header
\* fits, the time code is at most 10,000,000, the player number at most 100, the number
\* of argument types at most 100, every argument count at most 50, and all descriptors
\* and arguments lie inside the buffer; an accepted chunk has at most 100 * 50
\* arguments and ends inside the buffer.
C15_ParseChunkAcceptsIffSane ==
    pc = "chunks" =>
        \A p \in 0..SpanLen :
            LET parsed == parse_chunk(data, p)
            IN /\ IsSome(parsed) <=> Acceptable(data, p)
               /\ IsSome(parsed) =>
                     /\ Len(Get(parsed).chunk.args)
                           <= MAX_SANE_ARG_TYPES * MAX_SANE_ARG_COUNT
                     /\ Get(parsed).next_pos <= SpanLen
                     /\ Get(parsed).next_pos >= p + CHUNK_HEADER_LEN

\* the decode loop was given a chunk of 50 arguments that ends with the buffer
C15_Witness ==
    /\ pc = "raw_scan"
    /\ Len(decoded) = 1
    /\ Len(decoded[1].args) = MAX_SANE_ARG_COUNT
    /\ pos = SpanLen

\* the chunk images of the stream that start outside every chunk accepted before them
\* and pass every test of parse_chunk
AcceptableItems(d) ==
    {k \in 1..Len(d.stream) :
        d.stream[k].kind = "chunk" /\ Acceptable(d, ItemStart(d.stream, k))}

\* C16: the structured decoder covers the whole span: when the decode loop has ended,
\* every chunk image whose header fits in the buffer and that parse_chunk accepts has
\* been decoded and counted in the highest time code -- also a chunk without arguments
\* in the last 13 bytes of the buffer.
C16_DecoderCoversSpan ==
    pc = "raw_scan" =>
        \A k \in AcceptableItems(data) :
            /\ \E i \in 1..Len(decoded) :
                  /\ decoded[i].time_code = data.stream[k].time_code
                  /\ decoded[i].order_type = data.stream[k].order_type
                  /\ decoded[i].player_num = data.stream[k].player_num
            /\ parse_result.max_timecode >= data.stream[k].time_code

----------------------------------------------------------------------------
(* Event attribution *)

\* player number pn was given to a roster entry that is a player (team_raw >= 0)
IssuedToPlayer(d, pn) ==
    /\ pn \in FIRST_PLAYER_NUM..(FIRST_PLAYER_NUM + Len(OccupiedEntries(d)) - 1)
    /\ Issuer(d, pn).team_raw >= 0

\* C17: at every point of the two passes the defeated-set and the recorded end-game
\* player hold only player numbers of roster players (team_raw >= 0), and a position or
\* a building id is held only for a slot for which a chunk of a roster player was
\* decoded: chunks of player numbers that are not mapped or belong to a spectator
\* change none of them.
C17_EventsOfPlayersOnly ==
    /\ \A pn \in parse_result.defeated_players : IssuedToPlayer(data, pn)
    /\ IsSome(parse_result.endgame_player) =>
          IssuedToPlayer(data, Get(parse_result.endgame_player))
    /\ \A slot \in DOMAIN build_positions \cup DOMAIN unit_positions
                      \cup DOMAIN parse_result.player_building_ids :
          \E i \in 1..Len(decoded) :
              /\ IssuedToPlayer(data, decoded[i].player_num)
              /\ Issuer(data, decoded[i].player_num).slot = slot

----------------------------------------------------------------------------
(* Position precedence *)

\* the decoded chunks of the orders `orders` that carry a 3-float vector and whose
\* player number maps to the slot, by their place in the stream
PositionChunks(slot, orders) ==
    {i \in 1..Len(decoded) :
        /\ decoded[i].order_type \in orders
        /\ decoded[i].player_num \in DOMAIN pn_to_slot
        /\ pn_to_slot[decoded[i].player_num] = slot
        /\ \E a \in 1..Len(decoded[i].args) : decoded[i].args[a].kind = "Vec3"}

\* the position (x, y) of the first 3-float vector of the first of the chunks `idx`
FirstPosition(idx) ==
    LET i == CHOOSE a \in idx : \A b \in idx : a <= b
        vecs == SelectSeq(decoded[i].args, LAMBDA arg : arg.kind = "Vec3")
    IN [x |-> vecs[1].x, y |-> vecs[1].y]

\* every entry of the map `before` is an entry of the map `after`
KeepsEntries(before, after) ==
    \A s \in DOMAIN before : s \in DOMAIN after /\ after[s] = before[s]

\* C18: the map_position of a player is the position of the first decoded build chunk
\* (order 1049 or 1050) with a 3-float vector for the slot, wherever it stands in the
\* stream; without one, that of the first decoded unit-command chunk (order 1071) with
\* a 3-float vector; without either there is none.  A position held for a slot is
\* never overwritten by a later chunk.
C18_BuildPositionFirst ==
    /\ [](ReturnedOk /\ data.has_nul =>
            \A i \in 1..Len(players) :
                LET builds == PositionChunks(players[i].slot,
                                             {CMD_BUILD_OBJECT, CMD_BUILD_OBJECT_2})
                    units == PositionChunks(players[i].slot, {CMD_UNIT_COMMAND})
                IN players[i].map_position =
                      IF builds /= {} THEN Some(FirstPosition(builds))
                      ELSE IF units /= {} THEN Some(FirstPosition(units))
                      ELSE None)
    /\ [][/\ KeepsEntries(build_positions, build_positions')
           /\ KeepsEntries(unit_positions, unit_positions')]_vars

\* a unit-command chunk at (2000, 700) was decoded before a build chunk at (3000, 500)
\* of the same player, who is returned with the position of the build chunk
C18_Witness ==
    /\ ReturnedOk
    /\ Len(decoded) = 2
    /\ decoded[1].order_type = CMD_UNIT_COMMAND /\ decoded[2].order_type = CMD_BUILD_OBJECT_2
    /\ decoded[1].player_num = decoded[2].player_num
    /\ players[1].map_position = Some([x |-> 3000, y |-> 500])

----------------------------------------------------------------------------
(* End-game record *)

\* the end-game events accepted so far, as (player number, timecode): the decoded
\* end-game chunks of valid player numbers and the end-game matches the raw scanner
\* recorded
AcceptedEndGames ==
    {[player_num |-> decoded[i].player_num, tc |-> decoded[i].time_code] :
        i \in {j \in 1..Len(decoded) :
                  /\ decoded[j].order_type = CMD_END_GAME
                  /\ decoded[j].player_num \in
                         valid_player_nums(header_players, pn_to_slot)}}
    \cup {[player_num |-> scanned[i].player_num, tc |-> scanned[i].tc] :
            i \in {j \in 1..Len(scanned) : scanned[j].cmd = CMD_END_GAME}}

\* C19: the stored end-game timecode never decreases; has_endgame holds exactly when
\* an end-game player is recorded; and the record is that of an accepted end-game
\* event of the greatest timecode among those accepted by the structured decoder and
\* the raw scanner (there is a record exactly when an event was accepted), in
\* particular after both passes.
C19_EndGameLatestWins ==
    /\ [][parse_result'.endgame_timecode >= parse_result.endgame_timecode]_vars
    /\ [](parse_result.has_endgame <=> IsSome(parse_result.endgame_player))
    /\ [](/\ parse_result.has_endgame <=> AcceptedEndGames /= {}
          /\ parse_result.has_endgame =>
                /\ \A e \in AcceptedEndGames : e.tc <= parse_result.endgame_timecode
                /\ [player_num |-> Get(parse_result.endgame_player),
                    tc |-> parse_result.endgame_timecode] \in AcceptedEndGames)

\* parse_replay returned after an end-game event of timecode 10 was decoded and one of
\* timecode 5 of another player was found later in the stream by the raw scanner;
\* the record is the one of timecode 10
C19_Witness ==
    /\ ReturnedOk
    /\ \E i \in 1..Len(decoded) :
          decoded[i].order_type = CMD_END_GAME /\ decoded[i].time_code = 10
    /\ \E i \in 1..Len(scanned) :
          /\ scanned[i].cmd = CMD_END_GAME /\ scanned[i].tc = 5
          /\ Some(scanned[i].player_num) /= parse_result.endgame_player
    /\ parse_result.endgame_timecode = 10

----------------------------------------------------------------------------
(* Raw scanner acceptance *)

\* the four bytes at offset i of the stream are those of the order `cmd`
PatternBytesAt(i, cmd) ==
    \E k \in 1..Len(data.stream) :
        \/ /\ data.stream[k].kind = "pattern"
           /\ ItemStart(data.stream, k) = i
           /\ data.stream[k].order_type = cmd
        \/ /\ data.stream[k].kind = "chunk"
           /\ ItemStart(data.stream, k) + PATTERN_LEN = i
           /\ data.stream[k].order_type = cmd

\* the candidate chunk of a match at offset i starts inside the stream, its header of
\* 13 bytes fits in the buffer, and its fields pass the tests of the raw scanner
CandidateSane(i) ==
    /\ i - PATTERN_LEN >= 0
    /\ (i - PATTERN_LEN) + CHUNK_HEADER_LEN <= data.stream_len
    /\ \E k \in 1..Len(data.stream) :
          /\ data.stream[k].kind = "chunk"
          /\ ItemStart(data.stream, k) = i - PATTERN_LEN
          /\ data.stream[k].time_code > 0
          /\ data.stream[k].time_code < MAX_SANE_TIMECODE
          /\ data.stream[k].player_num \in 3..20
          /\ data.stream[k].n_arg_types <= 10
          /\ data.stream[k].player_num \in
                valid_player_nums(header_players, pn_to_slot)

\* C20: an iteration of the raw scanner at offset i changes the defeated-set or the
\* end-game record only if a pattern stands at i and the candidate chunk at i - 4
\* starts inside the stream, has its 13-byte header inside the buffer, a timecode
\* strictly between 0 and 10,000,000, a player number in 3..20 that belongs to the
\* set of valid player numbers, and an argument-type count of 10 at most; and a match
\* that passes all of them is recorded.
C20_RawScannerRecordsOnlySane ==
    [][pc = "raw_scan" /\ scan_i' = scan_i + 1 =>
         LET sane == /\ \E cmd \in {CMD_PLAYER_DEFEATED, CMD_END_GAME} :
                           PatternBytesAt(scan_i, cmd)
                     /\ CandidateSane(scan_i)
         IN /\ ~sane => /\ parse_result' = parse_result
                        /\ scanned' = scanned
            /\ sane => /\ Len(scanned') = Len(scanned) + 1
                       /\ PatternBytesAt(scan_i, CMD_PLAYER_DEFEATED) =>
                             parse_result'.defeated_players =
                                parse_result.defeated_players
                                   \cup {scanned'[Len(scanned')].player_num}
                       /\ PatternBytesAt(scan_i, CMD_END_GAME) =>
                             /\ parse_result'.has_endgame
                             /\ parse_result'.endgame_timecode >=
                                   scanned'[Len(scanned')].tc]_vars

\* the raw scanner has recorded an event and has passed matches it did not record
C20_Witness ==
    /\ pc = "raw_scan"
    /\ Len(scanned) >= 1
    /\ n_raw > Len(scanned)

----------------------------------------------------------------------------
(* Winner from the defeated-set *)

\* the teams of the players of the roster
TeamsOf(d) == {OccupiedEntries(d)[i].team_raw :
                  i \in {j \in 1..Len(OccupiedEntries(d)) :
                            OccupiedEntries(d)[j].team_raw >= 0}}

\* the player numbers of the players of team t
PlayerNumsOf(d, t) ==
    {FIRST_PLAYER_NUM + i - 1 :
        i \in {j \in 1..Len(OccupiedEntries(d)) : OccupiedEntries(d)[j].team_raw = t}}

\* the teams all of whose player numbers are in the defeated-set
FullyDefeatedTeams ==
    {t \in TeamsOf(data) : PlayerNumsOf(data, t) \subseteq parse_result.defeated_players}

\* the end-game strategy yields no result
NoEndGameResult ==
    ~IsSome(winner_from_endgame(parse_result, header_players, team_sides, pn_to_slot))

\* C21: when the end-game strategy yields no result, the defeated-set is not empty and
\* exactly one team has every player number in the defeated-set, the winner is the
\* certain win (LeftTeam / RightTeam) of the side of another team (a team whose side
\* is resolved, when there is one).
C21_FullDefeatCertain ==
    (/\ ReturnedOk
     /\ NoEndGameResult
     /\ parse_result.defeated_players /= {}
     /\ Cardinality(FullyDefeatedTeams) = 1) =>
        LET others == (TeamsOf(data) \ FullyDefeatedTeams) \cap DOMAIN team_sides
        IN others /= {} => winner \in {side_to_winner(team_sides[o]) : o \in others}

\* the full-team-defeated strategy yields no result, for the grouping and the order
\* of iteration determine_winner may have
NoFullDefeatResult ==
    \A slot_to_pn \in SlotToPnChoices(pn_to_slot) :
        LET team_players == TeamPlayers(header_players, slot_to_pn)
        IN \A order \in Orders(DOMAIN team_players) :
              ~IsSome(winner_from_full_defeat(parse_result.defeated_players,
                                              team_players, team_sides, order))

\* the number of players of team t whose player number is in the defeated-set
DefeatCount(t) ==
    Cardinality(PlayerNumsOf(data, t) \cap parse_result.defeated_players)

\* the teams with strictly fewer defeated players than some other team
FewerDefeated ==
    {t \in TeamsOf(data) : \E o \in TeamsOf(data) : DefeatCount(t) < DefeatCount(o)}

\* C22: a Likely win is returned only when the end-game strategy and the
\* full-team-defeated strategy yield nothing, the defeated-set is not empty and there
\* are exactly two teams, and it is the Likely win of the side of the team with
\* strictly fewer defeated players; when the two strategies yield nothing and the
\* defeated-set is not empty, the winner is that Likely win if there are exactly two
\* teams, their defeat counts differ and the side of the team with fewer defeats is
\* resolved, and Unknown if the counts are equal or there are not exactly two teams.
C22_MajorityDefeatedLikely ==
    ReturnedOk =>
        /\ winner \in {"LikelyLeftTeam", "LikelyRightTeam"} =>
              /\ NoEndGameResult
              /\ parse_result.defeated_players /= {}
              /\ Cardinality(TeamsOf(data)) = 2
              /\ \E t \in FewerDefeated \cap DOMAIN team_sides :
                    winner = side_to_likely_winner(team_sides[t])
        /\ (/\ NoEndGameResult /\ NoFullDefeatResult
            /\ parse_result.defeated_players /= {}) =>
              IF Cardinality(TeamsOf(data)) = 2 /\ FewerDefeated /= {}
              THEN \A t \in FewerDefeated :
                      t \in DOMAIN team_sides =>
                          winner = side_to_likely_winner(team_sides[t])
              ELSE winner = "Unknown"

----------------------------------------------------------------------------
(* Crash flag *)

\* C23: in every ReplayInfo returned, game_crashed holds exactly when the winner is
\* NotConcluded, and both hold exactly when no end-game event was observed and the
\* defeated-set is empty, also for a buffer in which no start of the stream was found.
C23_CrashFlagEquivalence ==
    ReturnedOk =>
        /\ game_crashed <=> winner = "NotConcluded"
        /\ game_crashed <=>
              (~parse_result.has_endgame /\ parse_result.defeated_players = {})

----------------------------------------------------------------------------
(* Reserved colour *)

\* C24: a returned player holds colour id 9 only if the player's roster entry chose 9;
\* the assignment to the players without a colour never hands out id 9.
C24_ColorNineOnlyIfChosen ==
    ReturnedOk =>
        \A i \in 1..Len(players) :
            players[i].color_id = PALETTE_SIZE - 1 =>
                find_players_and_spectators_in(data).players[i].color_id = PALETTE_SIZE - 1

----------------------------------------------------------------------------
(* Display faction *)

\* C25: the faction inferred from the buildings is displayed only for a player whose
\* lobby faction is Random: display_faction of a returned player with a concrete lobby
\* faction is the lobby faction, whatever building ids were decoded for the slot.
C25_LobbyFactionDisplayed ==
    ReturnedOk =>
        \A i \in 1..Len(players) :
            players[i].faction /= "Random" =>
                display_faction(players[i]) = players[i].faction

----------------------------------------------------------------------------
(* Display team *)

\* C26: in every ReplayInfo returned, players of equal team_raw have equal team, a
\* player's team is 1 only if the side of the player's team was resolved to Left and
\* 2 only if it was resolved to Right; so two teams of which only one has a positioned
\* player do not end up with the same team value.
C26_DisplayTeamEncodesSide ==
    ReturnedOk =>
        /\ \A i, j \in 1..Len(players) :
              players[i].team_raw = players[j].team_raw =>
                  players[i].team = players[j].team
        /\ \A i \in 1..Len(players) :
              /\ players[i].team = 1 =>
                    /\ players[i].team_raw \in DOMAIN team_sides
                    /\ team_sides[players[i].team_raw] = "Left"
              /\ players[i].team = 2 =>
                    /\ players[i].team_raw \in DOMAIN team_sides
                    /\ team_sides[players[i].team_raw] = "Right"
        /\ (/\ Cardinality({players[i].team_raw : i \in 1..Len(players)}) = 2
            /\ Cardinality(DOMAIN team_sides) = 1) =>
              \A i, j \in 1..Len(players) :
                  players[i].team_raw /= players[j].team_raw =>
                      players[i].team /= players[j].team

----------------------------------------------------------------------------
(* The fully defeated team *)

\* C27: with no end-game event and exactly two teams, exactly one of which has all
\* its player numbers in the defeated-set, the winner is not attributed to the fully
\* defeated team: it is the certain or likely win of the other team's side, or Unknown.
C27_DefeatedTeamNeverWins ==
    (/\ ReturnedOk
     /\ ~parse_result.has_endgame
     /\ Cardinality(TeamsOf(data)) = 2
     /\ Cardinality(FullyDefeatedTeams) = 1) =>
        LET others == (TeamsOf(data) \ FullyDefeatedTeams) \cap DOMAIN team_sides
        IN winner \in {"Unknown"}
                        \cup {side_to_winner(team_sides[o]) : o \in others}
                        \cup {side_to_likely_winner(team_sides[o]) : o \in others}

----------------------------------------------------------------------------
(* Integer ranges *)

\* C28: no arithmetic of the decode path leaves the range of its type: build_players
\* never computes a team value outside i8, the colour ids stay within i8, and
\* parse_replay returns Ok or an error value and never aborts.
C28_ArithmeticStaysInRange ==
    /\ ret.kind /= "panic"
    /\ pc = "build_players" => ~build_players_overflows(header_players)
    /\ \A i \in 1..Len(header_players) :
          header_players[i].color_id \in (-(I8_MAX + 1))..I8_MAX

----------------------------------------------------------------------------
(* Pagination bookkeeping *)

\* the follow-ups Show-more clicks sent
FollowUps == {m \in sent : m.task \in Clicks}

\* C29: every entry stored in the pending-replays map has shown + (number of remaining
\* replays) = total and at least one remaining replay, from the first insert of
\* process_archive_replays through every re-insert of a click; the "Showing N of T"
\* figure of every message never exceeds T, and it equals T exactly when nothing
\* remains, and then no button is offered.
C29_PendingBookkeeping ==
    /\ \A k \in DOMAIN pending :
          /\ pending[k].shown + Len(pending[k].replays) = pending[k].total
          /\ Len(pending[k].replays) >= 1
    /\ \A m \in sent :
          /\ m.shown <= m.total
          /\ m.shown = m.total <=> m.left = 0
          /\ m.left = 0 => ~m.button

\* a click has re-inserted the rest of an archive of more than two batches and
\* offered the button again, and a later click has shown its last replays, without
\* a button
C29_Witness ==
    \E m, n \in FollowUps :
        /\ m.key = n.key
        /\ m.button /\ m.shown = 2 * BATCH_SIZE /\ m.left >= 1
        /\ n.shown = n.total /\ n.total > 2 * BATCH_SIZE /\ n.left = 0 /\ ~n.button

----------------------------------------------------------------------------
(* Concurrent Show-more clicks *)

\* the clicks whose lookup took an entry out of the map
Takers == {c \in Clicks : tasks[c].found = "Found"}

\* no two clicks took the same stored batch, no replay of an archive is in two
\* rendered batches, only a click that took an entry rendered, and the map is
\* within its capacity
BatchesTakenOnce ==
    /\ \A c, d \in Takers :
          (c # d /\ tasks[c].key = tasks[d].key) => tasks[c].replays # tasks[d].replays
    /\ \A b, e \in rendered : (b # e /\ b.key = e.key) => b.ids \cap e.ids = {}
    /\ \A b \in rendered : b.task \in Clicks => b.task \in Takers
    /\ Cardinality(DOMAIN pending) <= MAX_PENDING_ENTRIES

\* the step is the lookup of click c, and it ends in NotFound or ChannelMismatch
LookupTakesNothing(c) ==
    /\ tasks[c].pc = "lookup"
    /\ tasks'[c].pc # "lookup"
    /\ tasks'[c].found \in {"NotFound", "ChannelMismatch"}

\* the entries of the map that the expiry cleanup drops at time t
Expired(map, t) == DOMAIN map \ DOMAIN cleanup_expired_pending_inner(map, t)

\* C30: under every interleaving of concurrent Show-more clicks, each stored pending
\* batch is taken by at most one click; a click whose lookup finds no entry or a
\* channel mismatch renders nothing and removes no entry but the expired ones its
\* cleanup drops; no replay of an archive is rendered in two batches, and the map
\* never holds more than MAX_PENDING_ENTRIES entries.
C30_ClicksTakeOnce ==
    /\ []BatchesTakenOnce
    /\ [][\A c \in Clicks :
             LookupTakesNothing(c) =>
                 /\ rendered' = rendered
                 /\ DOMAIN pending' = DOMAIN pending \ Expired(pending, now)
                 /\ \A k \in DOMAIN pending' : pending'[k] = pending[k]]_vars

\* two clicks carried the same key at the same time: one of them took the batch,
\* rendered it and stored the rest, the other found nothing; the map is full
C30_Witness ==
    /\ \E c, d \in Clicks :
          /\ tasks[c].key = tasks[d].key
          /\ tasks[c].found = "Found" /\ tasks[c].pc = "done"
          /\ \E b \in rendered : b.task = c
          /\ IsSome(tasks[c].pending_key)
          /\ tasks[d].found = "NotFound" /\ tasks[d].pc = "done"
    /\ Cardinality(DOMAIN pending) = MAX_PENDING_ENTRIES

\* C30 as stated: a click whose lookup finds no entry or a channel mismatch removes
\* nothing from the map at all.
C30_LookupRemovesNothing ==
    /\ []BatchesTakenOnce
    /\ [][\A c \in Clicks :
             LookupTakesNothing(c) => (rendered' = rendered /\ pending' = pending)]_vars
====
